---- MODULE Spec2Model ----
(***************************************************************************)
(* Time-and-attendance application: the derivation of per-day attendance   *)
(* records from clock events (TimeReport.processedEntries and              *)
(* EmployeeDashboard.processedDailyEntries), the per-user running balance  *)
(* (TimeReport.entriesWithAccumulatedBalance) and the frame of these       *)
(* derived computations on the arrays they receive.                        *)
(*                                                                         *)
(* Representation.                                                         *)
(*  - A Date is its getTime() value: milliseconds since the local midnight *)
(*    of 30/01/2024 (the model's day 0).  Only whole minutes occur.  The   *)
(*    local time zone is at the fixed offset timezoneOffset from UTC.      *)
(*  - A number of hours (workedHours, balance, workdayHours,               *)
(*    accumulatedBalance) is held in sixtieths of an hour, so that         *)
(*    millis / (1000 * 60 * 60) stays an integer: 8 h is 480.              *)
(*  - An optional value (entrada?: Date) is <<>> when undefined and <<v>>  *)
(*    when present.                                                        *)
(*  - A date string "dd/mm/yyyy" is the tuple <<dd, mm, yyyy>>; the string *)
(*    built by Array.join is the sequence of the joined pieces.            *)
(*  - The id of a time_entries document is a natural number; a snapshot    *)
(*    lists the documents in id order.  A collection is a function from    *)
(*    document ids to document data, a JavaScript object a function from   *)
(*    field names to values.  A parsed JSON value carries its kind.        *)
(***************************************************************************)
EXTENDS Integers, Sequences, FiniteSets, TLC

\* ------------------------------------------------------------------ bounds
MaxEntries == 4
MaxDays == 3
MaxRequests == 3
MaxBackup == 2
MaxAuditLogs == 2

\* ------------------------------------------------------- program constants
ENTRADA == "Entrada"
INICIO_INTERVALO == "Inicio Intervalo"
FIM_INTERVALO == "Fim Intervalo"
SAIDA == "Saida"
FERIAS == "Ferias"
TimeEntryType == {ENTRADA, INICIO_INTERVALO, FIM_INTERVALO, SAIDA, FERIAS}

MsPerMinute == 1000 * 60
MsPerHour == 1000 * 60 * 60
MsPerDay == 24 * MsPerHour
DefaultWorkdayHours == 8

\* hours (a JS number) in sixtieths of an hour
Hours(h) == h * 60
\* millis / (1000 * 60 * 60), in sixtieths of an hour
MillisToHours(ms) == ms \div MsPerMinute
\* the instant hh:00 of day d
At(d, hh) == d * MsPerDay + hh * MsPerHour

None == <<>>
Some(v) == <<v>>

\* the array with the elements f[1], ..., f[n], each evaluated once
Array(f) == f \o <<>>

\* ------------------------------------------------------------ Date methods
\* Date.getDate/getMonth/getFullYear in local time, for the days of the model:
\* day 0 is 30/01/2024, day 1 31/01/2024, day 2 01/02/2024, ...
LocalDay(ts) == ts \div MsPerDay
getFullYear(ts) == 2024
getMonth(ts) == IF 30 + LocalDay(ts) <= 31 THEN 0 ELSE 1
getDate(ts) == IF 30 + LocalDay(ts) <= 31 THEN 30 + LocalDay(ts) ELSE LocalDay(ts) - 1
getHours(ts) == (ts % MsPerDay) \div MsPerHour

\* Date.toLocaleDateString('pt-BR'): "dd/mm/yyyy"
toLocaleDateString(ts) == <<getDate(ts), getMonth(ts) + 1, getFullYear(ts)>>

\* date.split('/').reverse().join('-'): "yyyy-mm-dd"
Reverse(s) == Array([i \in 1..Len(s) |-> s[Len(s) + 1 - i]])
IsoOfDateString(date) == Reverse(date)

\* Date.getTimezoneOffset() of the browser: UTC minus local time, in minutes
VARIABLE timezoneOffset

\* new Date("yyyy-mm-dd").getTime(): a date-only string is read as UTC, so the
\* Date is midnight UTC of that calendar day
DateParse(iso) ==
    (IF iso[2] = 1 THEN iso[3] - 30 ELSE iso[3] + 1) * MsPerDay
    - timezoneOffset * MsPerMinute
DateStringTime(date) == DateParse(IsoOfDateString(date))

isSameDay(d1, d2) ==
    /\ getFullYear(d1) = getFullYear(d2)
    /\ getMonth(d1) = getMonth(d2)
    /\ getDate(d1) = getDate(d2)

\* ----------------------------------------------------------- Array methods
\* Array.prototype.sort with the comparator (a, b) => key(a) - key(b): the
\* sort is stable, so elements of equal key keep their relative order.
\* keys[i] is the key of arr[i].
SortedPosition(keys, i) ==
    Cardinality({j \in 1..Len(keys) : keys[j] < keys[i]})
    + Cardinality({j \in 1..i : keys[j] = keys[i]})

StableSort(arr, keys) ==
    Array([k \in 1..Len(arr) |-> arr[CHOOSE i \in 1..Len(arr) : SortedPosition(keys, i) = k]])

\* arr.sort((a, b) => a.timestamp.getTime() - b.timestamp.getTime())
SortByTimestamp(arr) ==
    StableSort(arr, Array([i \in 1..Len(arr) |-> arr[i].timestamp]))

\* arr.sort((a, b) => time(a.date) - time(b.date))
SortByDateAsc(arr) ==
    StableSort(arr, Array([i \in 1..Len(arr) |-> DateStringTime(arr[i].date)]))

\* arr.sort((a, b) => time(b.date) - time(a.date))
SortByDateDesc(arr) ==
    StableSort(arr, Array([i \in 1..Len(arr) |-> 0 - DateStringTime(arr[i].date)]))

\* FindType returning the last match
FindType_Last(arr, type) ==
    LET hits == SelectSeq(arr, LAMBDA e : e.type = type)
    IN  IF Len(hits) = 0 THEN None ELSE Some(hits[Len(hits)])

\* arr.find(e => e.type === type): first match or undefined
FindType(arr, type) ==
    LET hits == SelectSeq(arr, LAMBDA e : e.type = type)
    IN  IF Len(hits) = 0 THEN None ELSE Some(hits[1])

\* parts.join(sep)
Join(parts, sep) ==
    LET F[i \in 0..Len(parts)] ==
            IF i = 0 THEN <<>>
            ELSE IF i = 1 THEN <<parts[1]>>
            ELSE F[i - 1] \o <<sep, parts[i]>>
    IN  F[Len(parts)]

NonEmpty(s) == s # ""

\* ------------------------------------------------ the attendance aggregator
\* workedMillisOf with the break left out of the subtraction
workedMillisOf_NoBreak(entrada, inicioIntervalo, fimIntervalo, saida) ==
    IF entrada # None /\ saida # None
    THEN saida[1].timestamp - entrada[1].timestamp
    ELSE 0

\* workedMillis of one day, from the events found for the four kinds
workedMillisOf(entrada, inicioIntervalo, fimIntervalo, saida) ==
    IF entrada # None /\ saida # None
    THEN LET totalMillis == saida[1].timestamp - entrada[1].timestamp
             breakMillis ==
                 IF inicioIntervalo # None /\ fimIntervalo # None
                 THEN fimIntervalo[1].timestamp - inicioIntervalo[1].timestamp
                 ELSE 0
         IN  totalMillis - breakMillis
    ELSE 0

\* workedHoursOf without the test workedMillis > 0
workedHoursOf_Unclamped(workedMillis) ==
    IF workedMillis >= 0 THEN MillisToHours(workedMillis)
    ELSE 0 - MillisToHours(0 - workedMillis)

\* workedMillis > 0 ? (workedMillis / (1000 * 60 * 60)) : 0
workedHoursOf(workedMillis) ==
    IF workedMillis > 0 THEN MillisToHours(workedMillis) ELSE 0

\* balanceOf without the test for entrada and saida
balanceOf_Unguarded(entrada, saida, workedHours, workdayHours) ==
    workedHours - workdayHours

\* (entrada && saida) ? workedHours - workdayHours : 0
balanceOf(entrada, saida, workedHours, workdayHours) ==
    IF entrada # None /\ saida # None THEN workedHours - workdayHours ELSE 0

\* statusOf with || in place of &&
statusOf_Either(entrada, saida) ==
    IF entrada # None \/ saida # None THEN "Completo" ELSE "Incompleto"

\* (entrada && saida) ? "Completo" : "Incompleto"
statusOf(entrada, saida) ==
    IF entrada # None /\ saida # None THEN "Completo" ELSE "Incompleto"

\* observationOf without filter(Boolean)
observationOf_Unfiltered(sortedEntries) ==
    Join(Array([i \in 1..Len(sortedEntries) |-> sortedEntries[i].observation]), "; ")

\* sortedEntries.map(e => e.observation).filter(Boolean).join('; ')
observationOf(sortedEntries) ==
    Join(SelectSeq(Array([i \in 1..Len(sortedEntries) |-> sortedEntries[i].observation]),
                   NonEmpty), "; ")

\* entrada?.timestamp
TimestampOf(found) == IF found = None THEN None ELSE Some(found[1].timestamp)

\* the body of the .map callback, shared by both dashboards
ProcessDay(dayEntries, workdayHours) ==
    LET sortedEntries == SortByTimestamp(dayEntries)
        entrada == FindType(sortedEntries, ENTRADA)
        inicioIntervalo == FindType(sortedEntries, INICIO_INTERVALO)
        fimIntervalo == FindType(sortedEntries, FIM_INTERVALO)
        saida == FindType(sortedEntries, SAIDA)
        workedMillis == workedMillisOf(entrada, inicioIntervalo, fimIntervalo, saida)
        workedHours == workedHoursOf(workedMillis)
    IN  [entrada |-> TimestampOf(entrada),
         inicioIntervalo |-> TimestampOf(inicioIntervalo),
         fimIntervalo |-> TimestampOf(fimIntervalo),
         saida |-> TimestampOf(saida),
         workedHours |-> workedHours,
         balance |-> balanceOf(entrada, saida, workedHours, workdayHours),
         status |-> statusOf(entrada, saida),
         observation |-> observationOf(sortedEntries),
         originalEntries |-> sortedEntries]

\* the tags of a TimeReport row
TagsOf(day, workdayHours) ==
    IF day.status = "Completo"
    THEN <<"Completo">>
         \o (IF day.workedHours > workdayHours + 30 THEN <<"Hora Extra">> ELSE <<>>)
         \o (IF day.entrada # None /\ getHours(day.entrada[1]) >= 9
             THEN <<"Atraso">> ELSE <<>>)
    ELSE <<"Incompleto">>

\* the keys of groupedByDay in insertion order (Object.values order)
FirstOccurrences(keys) ==
    SelectSeq(Array([i \in 1..Len(keys) |-> i]),
              LAMBDA i : \A j \in 1..(i - 1) : keys[j] # keys[i])

\* ReportDateKey without the user
ReportDateKey_DateOnly(entry) == <<"", toLocaleDateString(entry.timestamp)>>

\* TimeReport: `${entry.userId}-${entry.timestamp.toLocaleDateString('pt-BR')}`
ReportDateKey(entry) == <<entry.userId, toLocaleDateString(entry.timestamp)>>

\* TimeReport.processedEntries
processedEntriesOf(entries, workdayHours) ==
    LET keys == Array([i \in 1..Len(entries) |-> ReportDateKey(entries[i])])
        first == FirstOccurrences(keys)
        row(i) ==
            LET dayGroup == [userId |-> entries[i].userId,
                             date |-> toLocaleDateString(entries[i].timestamp),
                             entries |-> SelectSeq(entries,
                                             LAMBDA e : ReportDateKey(e) = keys[i])]
                day == ProcessDay(dayGroup.entries, workdayHours)
            IN  [id |-> <<dayGroup.userId, dayGroup.date>>,
                 userId |-> dayGroup.userId,
                 date |-> dayGroup.date,
                 entrada |-> day.entrada,
                 inicioIntervalo |-> day.inicioIntervalo,
                 fimIntervalo |-> day.fimIntervalo,
                 saida |-> day.saida,
                 workedHours |-> day.workedHours,
                 balance |-> day.balance,
                 status |-> day.status,
                 observation |-> day.observation,
                 originalEntries |-> day.originalEntries,
                 tags |-> TagsOf(day, workdayHours)]
    IN  SortByDateDesc(Array([n \in 1..Len(first) |-> row(first[n])]))

\* EmployeeDashboard: entry.timestamp.toLocaleDateString('pt-BR')
DashboardDateKey(entry) == toLocaleDateString(entry.timestamp)

\* EmployeeDashboard.processedDailyEntries
processedDailyEntriesOf(entries, workdayHours) ==
    LET keys == Array([i \in 1..Len(entries) |-> DashboardDateKey(entries[i])])
        first == FirstOccurrences(keys)
        row(i) ==
            LET dayEntries == SelectSeq(entries, LAMBDA e : DashboardDateKey(e) = keys[i])
                day == ProcessDay(dayEntries, workdayHours)
            IN  [date |-> toLocaleDateString(day.originalEntries[1].timestamp),
                 entrada |-> day.entrada,
                 inicioIntervalo |-> day.inicioIntervalo,
                 fimIntervalo |-> day.fimIntervalo,
                 saida |-> day.saida,
                 workedHours |-> day.workedHours,
                 balance |-> day.balance,
                 status |-> day.status,
                 observation |-> day.observation,
                 originalEntries |-> day.originalEntries]
    IN  SortByDateDesc(Array([n \in 1..Len(first) |-> row(first[n])]))

\* App render: timeEntries.filter(e => e.userId === currentUser.id)
EntriesOfUser(entries, userId) == SelectSeq(entries, LAMBDA e : e.userId = userId)

\* --------------------------------------------- receivers of array methods
\* Each operator gives the receiver (self) after the call and the array the
\* call returns (ret): filter and spread return a new array and leave the
\* receiver alone; sort and reverse work in place and return the receiver.
\* keep[i] is the callback's answer for arr[i]
ArrayFilter(arr, keep) ==
    LET kept == SelectSeq(Array([i \in 1..Len(arr) |-> i]), LAMBDA i : keep[i])
    IN  [self |-> arr, ret |-> Array([k \in 1..Len(kept) |-> arr[kept[k]]])]
ArraySpread(arr) == [self |-> arr, ret |-> arr]
ArraySortByTimestamp(arr) == LET s == SortByTimestamp(arr) IN [self |-> s, ret |-> s]
ArraySortByDateAsc(arr) == LET s == SortByDateAsc(arr) IN [self |-> s, ret |-> s]
ArrayReverse(arr) == LET s == Reverse(arr) IN [self |-> s, ret |-> s]

\* ------------------------------------------------------ TimeReport filters
NoDate == <<>>
DefaultFilters == [userId |-> "all", startDate |-> NoDate, endDate |-> NoDate]

\* TimeReport.filteredEntries
filteredEntriesOf(processed, f) ==
    SelectSeq(processed, LAMBDA entry :
        /\ ~(f.userId # "all" /\ entry.userId # f.userId)
        /\ ~(f.startDate # NoDate /\ DateStringTime(entry.date) < DateParse(f.startDate))
        /\ ~(f.endDate # NoDate /\ DateStringTime(entry.date) > DateParse(f.endDate)))

\* ---------------------------------------------------- balance accumulator
\* BalanceOrZero reading one total shared by all users
BalanceOrZero_Shared(accumulatedBalances, userId) ==
    IF DOMAIN accumulatedBalances = {} THEN 0
    ELSE LET last == CHOOSE u \in DOMAIN accumulatedBalances :
                         \A v \in DOMAIN accumulatedBalances :
                             accumulatedBalances[v] <= accumulatedBalances[u]
         IN  accumulatedBalances[last]

\* accumulatedBalances[entry.userId] || 0
BalanceOrZero(accumulatedBalances, userId) ==
    IF userId \in DOMAIN accumulatedBalances THEN accumulatedBalances[userId] ELSE 0

\* AccumulatorSorted sorting filteredEntries itself
AccumulatorSorted_InPlace(filtered) ==
    LET sorted == ArraySortByDateAsc(filtered)
    IN  [self |-> sorted.self, ret |-> sorted.ret]

\* the array `sorted` of entriesWithAccumulatedBalance and what the sort
\* leaves in filteredEntries: the sort runs on a spread copy
AccumulatorSorted(filtered) ==
    LET copy == ArraySpread(filtered)
        sorted == ArraySortByDateAsc(copy.ret)
    IN  [self |-> copy.self, ret |-> sorted.ret]

\* sorted.map(entry => ...) with the accumulatedBalances map
AccumulateMap(sorted) ==
    LET F[i \in 0..Len(sorted)] ==
            IF i = 0 THEN [balances |-> <<>>, entries |-> <<>>]
            ELSE LET entry == sorted[i]
                     prev == F[i - 1]
                     currentBalance == BalanceOrZero(prev.balances, entry.userId)
                     newAccumulatedBalance == currentBalance + entry.balance
                 IN  [balances |-> [u \in DOMAIN prev.balances \cup {entry.userId} |->
                                       IF u = entry.userId THEN newAccumulatedBalance
                                       ELSE prev.balances[u]],
                      entries |-> Append(prev.entries,
                                     entry @@ [accumulatedBalance |->
                                                   newAccumulatedBalance])]
    IN  F[Len(sorted)].entries

\* TimeReport.entriesWithAccumulatedBalance: value is the memo's result,
\* filteredEntries the array it was given as the memo leaves it
entriesWithAccumulatedBalanceOf(filtered) ==
    LET sorted == AccumulatorSorted(filtered)
        entries == AccumulateMap(sorted.ret)
    IN  [value |-> ArrayReverse(entries).ret, filteredEntries |-> sorted.self]

\* TimeReport.summaryStats, the array entriesToday and what the memo leaves
\* in timeEntries: the sort runs on the array filter returned
SummaryEntriesToday(entries, today) ==
    LET entriesToday ==
            ArrayFilter(entries,
                Array([i \in 1..Len(entries) |-> isSameDay(entries[i].timestamp, today)]))
        sorted == ArraySortByTimestamp(entriesToday.ret)
    IN  [self |-> entriesToday.self, ret |-> sorted.ret]

\* EmployeeDashboard.todayEntries, likewise
todayEntriesOf(entries, today) ==
    LET filtered ==
            ArrayFilter(entries,
                Array([i \in 1..Len(entries) |-> isSameDay(entries[i].timestamp, today)]))
        sorted == ArraySortByTimestamp(filtered.ret)
    IN  [self |-> filtered.self, ret |-> sorted.ret]

\* ------------------------------------------------------------ summaryStats
\* x.toFixed(2) of a number of hours: the number of hundredths of an hour
\* nearest to it (sixtieths of an hour never lie halfway)
toFixed2(hours) ==
    IF hours >= 0 THEN (hours * 10 + 3) \div 6 ELSE 0 - ((0 - hours) * 10 + 3) \div 6

\* arr.reduce((acc, curr) => acc + term(curr), 0); terms[i] is term(arr[i])
ReduceSum(terms) ==
    LET F[i \in 0..Len(terms)] == IF i = 0 THEN 0 ELSE F[i - 1] + terms[i]
    IN  F[Len(terms)]

\* processedEntries.filter(e => month and year of new Date(iso of e.date)
\* are those of today)
currentMonthEntriesOf(processed, today) ==
    SelectSeq(processed, LAMBDA e :
        LET entryDate == DateParse(IsoOfDateString(e.date))
        IN  /\ getMonth(entryDate) = getMonth(today)
            /\ getFullYear(entryDate) = getFullYear(today))

\* curr.workedHours > workdayHours ? curr.workedHours - workdayHours : 0
overtimeOf(curr, workdayHours) ==
    IF curr.workedHours > workdayHours THEN curr.workedHours - workdayHours ELSE 0

\* e.entrada && e.entrada.getHours() >= 9
isLate(e) == e.entrada # None /\ getHours(e.entrada[1]) >= 9

\* userStatus after the forEach over the sorted entries of today: the type
\* of the last entry of each user that has one
userStatusOf(sortedToday) ==
    [u \in {sortedToday[i].userId : i \in DOMAIN sortedToday} |->
        LET last == CHOOSE i \in DOMAIN sortedToday :
                        /\ sortedToday[i].userId = u
                        /\ \A j \in DOMAIN sortedToday :
                               sortedToday[j].userId = u => j <= i
        IN  sortedToday[last].type]

\* isWorking counting every status
isWorking_Any(status) == TRUE

\* status => status && status !== TimeEntryType.SAIDA
isWorking(status) == status # "" /\ status # SAIDA

\* TimeReport.summaryStats
summaryStatsOf(processed, entries, workdayHours, today) ==
    LET currentMonthEntries == currentMonthEntriesOf(processed, today)
        totalHoursMonth ==
            ReduceSum(Array([i \in 1..Len(currentMonthEntries) |->
                                currentMonthEntries[i].workedHours]))
        totalBalance ==
            ReduceSum(Array([i \in 1..Len(processed) |-> processed[i].balance]))
        overtime ==
            ReduceSum(Array([i \in 1..Len(currentMonthEntries) |->
                                overtimeOf(currentMonthEntries[i], workdayHours)]))
        lateness == Len(SelectSeq(currentMonthEntries, isLate))
        userStatus == userStatusOf(SummaryEntriesToday(entries, today).ret)
        currentlyWorking ==
            Cardinality({u \in DOMAIN userStatus : isWorking(userStatus[u])})
    IN  [totalHoursMonth |-> toFixed2(totalHoursMonth),
         totalBalance |-> toFixed2(totalBalance),
         overtime |-> toFixed2(overtime),
         lateness |-> lateness,
         currentlyWorking |-> currentlyWorking]

\* ---------------------------------------------------------------- geofence
\* A latitude or longitude is a whole number of millionths of a degree, a
\* distance a whole number of millimetres, a radius a number of metres.
DefaultLatitude == 0 - 20854110
DefaultLongitude == 0 - 49340390
DefaultRadius == 10
MillimetresPerMetre == 1000

\* R * Math.PI / 180 with R = 6371e3: the metres of one degree of a great
\* circle, which are the millimetres of a thousandth of a degree
MetresPerDegree == 111195

Abs(x) == IF x < 0 THEN 0 - x ELSE x

\* calculateDistance for two points of one meridian (lon1 = lon2), where
\* a = sin^2(dphi / 2) and c = 2 * atan2(sqrt(a), sqrt(1 - a)) = |dphi|, so
\* that R * c is R * |lat2 - lat1| * PI / 180; the positions and workplaces
\* of the model lie on one meridian
calculateDistance(lat1, lon1, lat2, lon2) ==
    (Abs(lat2 - lat1) * MetresPerDegree) \div 1000

\* distance.toFixed(0): the nearest whole number of metres
toFixed0(distance) == (distance + 500) \div MillimetresPerMetre

\* withinRadius comparing with < instead of <=
withinRadius_Strict(distance, allowedRadius) ==
    distance < allowedRadius * MillimetresPerMetre

\* distance <= allowedRadius
withinRadius(distance, allowedRadius) ==
    distance <= allowedRadius * MillimetresPerMetre

\* GeolocationPositionError codes
PERMISSION_DENIED == 1
POSITION_UNAVAILABLE == 2
TIMEOUT == 3

\* the message set by the error callback
errorMessageOf(code) ==
    IF code = PERMISSION_DENIED THEN "Permissao de localizacao negada"
    ELSE IF code = POSITION_UNAVAILABLE THEN "Informacoes de localizacao nao disponiveis"
    ELSE IF code = TIMEOUT THEN "A solicitacao expirou"
    ELSE "Ocorreu um erro ao obter a localizacao"

\* the success callback of a request made under the workplace `target`:
\* the location state and error it sets
positionResultOf(coords, target) ==
    LET distance == calculateDistance(coords.latitude, coords.longitude,
                                      target.latitude, target.longitude)
    IN  IF withinRadius(distance, target.radius)
        THEN [locationState |-> "allowed", locationError |-> None]
        ELSE [locationState |-> "denied",
              locationError |-> Some([text |-> "fora do raio",
                                      distance |-> toFixed0(distance),
                                      radius |-> target.radius])]

\* actionButtons[...].enabled
actionEnabled(type, lastAction) ==
    IF type = ENTRADA THEN lastAction = None \/ lastAction = Some(SAIDA)
    ELSE IF type = INICIO_INTERVALO THEN lastAction = Some(ENTRADA)
    ELSE IF type = FIM_INTERVALO THEN lastAction = Some(INICIO_INTERVALO)
    ELSE IF type = SAIDA THEN lastAction = Some(ENTRADA) \/ lastAction = Some(FIM_INTERVALO)
    ELSE FALSE

\* buttonDisabled without the location state
buttonDisabled_NoGeofence(type, lastAction, state) == ~actionEnabled(type, lastAction)

\* disabled={!btn.enabled || locationState !== 'allowed'}
buttonDisabled(type, lastAction, state) ==
    ~actionEnabled(type, lastAction) \/ state # "allowed"

\* ------------------------------------------------------------------ backup
\* Date.toISOString(): the fields <<yyyy, mm, dd, hh, mm, ss, sss>> of the
\* instant in UTC
toISOString(ts) ==
    LET utc == ts + timezoneOffset * MsPerMinute
        time == utc % MsPerDay
    IN  <<getFullYear(utc), getMonth(utc) + 1, getDate(utc), time \div MsPerHour,
          (time % MsPerHour) \div MsPerMinute, (time % MsPerMinute) \div 1000,
          time % 1000>>

\* new Date(iso) of a string with date, time and Z
DateOfISOString_NoMillis(iso) ==
    DateParse(<<iso[1], iso[2], iso[3]>>)
    + iso[4] * MsPerHour + iso[5] * MsPerMinute + iso[6] * 1000

\* new Date(iso) of a string with date, time and Z
DateOfISOString(iso) ==
    DateParse(<<iso[1], iso[2], iso[3]>>)
    + iso[4] * MsPerHour + iso[5] * MsPerMinute + iso[6] * 1000 + iso[7]

\* Timestamp.fromDate and Timestamp.toDate of Firestore
TimestampFromDate(ms) ==
    [seconds |-> ms \div 1000, nanoseconds |-> (ms % 1000) * 1000000]
TimestampToDate(t) == t.seconds * 1000 + t.nanoseconds \div 1000000

\* const { id, ...rest } = object, with the id left in rest
RestOf_Whole(object) == object

\* const { id, ...rest } = object
RestOf(object) == [field \in DOMAIN object \ {"id"} |-> object[field]]

\* the ids of the users collection in document order
UserIdOrder == <<"adm", "old1", "u1", "u2", "u3", "u4", "u5">>
DocsOfUsers(users) == SelectSeq(UserIdOrder, LAMBDA id : id \in DOMAIN users)
\* the ids of the time_entries collection in document order
DocsOfTimeEntries(entries) ==
    LET ids == DOMAIN entries
        F[k \in 0..Cardinality(ids)] ==
            IF k = 0 THEN <<>>
            ELSE Append(F[k - 1],
                        CHOOSE i \in ids : Cardinality({j \in ids : j < i}) = k - 1)
    IN  F[Cardinality(ids)]

\* parsed JSON values
JsonNull == [kind |-> "null"]
JsonNumber == [kind |-> "number"]
JsonString == [kind |-> "string"]
JsonArray(items) == [kind |-> "array", items |-> items]
JsonObject(fields) == [kind |-> "object", fields |-> fields]
\* the text of a file: JSON.stringify(value), or text that is not JSON
Stringify(value) == [json |-> TRUE, value |-> value]
MalformedText == [json |-> FALSE]
\* JSON.parse(text)
JSONParse(text) ==
    IF text.json THEN [thrown |-> FALSE, value |-> text.value] ELSE [thrown |-> TRUE]

\* handleExportData: usersData
exportUsersOf(users) ==
    LET docs == DocsOfUsers(users)
    IN  Array([i \in 1..Len(docs) |-> users[docs[i]] @@ [id |-> docs[i]]])

\* handleExportData: timeEntriesData
exportTimeEntriesOf(entries) ==
    LET docs == DocsOfTimeEntries(entries)
    IN  Array([i \in 1..Len(docs) |->
            LET data == entries[docs[i]]
            IN  [timestamp |-> toISOString(TimestampToDate(data.timestamp))]
                @@ data @@ [id |-> docs[i]]])

\* handleExportData: the text of the downloaded file
exportFileOf(store, today) ==
    Stringify(JsonObject(
        [users |-> JsonArray(exportUsersOf(store.users)),
         time_entries |-> JsonArray(exportTimeEntriesOf(store.time_entries)),
         exportedAt |-> JsonString]))

\* the shape check looking at users only
MissingArray_UsersOnly(data, field) ==
    \/ data.kind # "object"
    \/ "users" \notin DOMAIN data.fields
    \/ data.fields["users"].kind # "array"

\* data.field.forEach is a function
HasForEach(data, field) ==
    /\ field \in DOMAIN data.fields
    /\ data.fields[field].kind = "array"

\* !data.field || !Array.isArray(data.field)
MissingArray(data, field) ==
    \/ data.kind # "object"
    \/ field \notin DOMAIN data.fields
    \/ data.fields[field].kind # "array"

\* an import that replaces the users collection by the records of the file
importUsersOf_Replace(users, records) ==
    LET F[i \in 0..Len(records)] ==
            IF i = 0 THEN <<>>
            ELSE LET user == records[i]
                 IN  IF "id" \in DOMAIN user /\ user.id # ""
                     THEN [id \in DOMAIN F[i - 1] \cup {user.id} |->
                              IF id = user.id THEN RestOf(user) ELSE F[i - 1][id]]
                     ELSE F[i - 1]
    IN  F[Len(records)]

\* batch.set for each user that has an id
importUsersOf(users, records) ==
    LET F[i \in 0..Len(records)] ==
            IF i = 0 THEN users
            ELSE LET user == records[i]
                 IN  IF "id" \in DOMAIN user /\ user.id # ""
                     THEN [id \in DOMAIN F[i - 1] \cup {user.id} |->
                              IF id = user.id THEN RestOf(user) ELSE F[i - 1][id]]
                     ELSE F[i - 1]
    IN  F[Len(records)]

\* id && entry.timestamp
entryIsImported(entry) ==
    /\ "id" \in DOMAIN entry /\ entry.id # 0
    /\ "timestamp" \in DOMAIN entry

\* batch.set for each time entry that has an id and a timestamp
importTimeEntriesOf(entries, records) ==
    LET F[i \in 0..Len(records)] ==
            IF i = 0 THEN entries
            ELSE LET entry == records[i]
                 IN  IF entryIsImported(entry)
                     THEN LET timestamp ==
                                  TimestampFromDate(DateOfISOString(entry.timestamp))
                              data == [timestamp |-> timestamp] @@ RestOf(entry)
                          IN  [id \in DOMAIN F[i - 1] \cup {entry.id} |->
                                  IF id = entry.id THEN data ELSE F[i - 1][id]]
                     ELSE F[i - 1]
    IN  F[Len(records)]

\* logActivity(currentUser, action) with a signed-in user: addDoc to
\* audit_logs
logActivity(store, action) ==
    [store EXCEPT !.audit_logs = Append(@, action)]

\* handleImportData: the store it leaves and the result it returns;
\* commits tells whether batch.commit() succeeds; a TypeError (a field of
\* null, forEach of a value that is no array) and a failed commit end in
\* the catch block
importOutcomeOf(store, fileContent, commits) ==
    LET parsed == JSONParse(fileContent)
        thrown == [store |-> logActivity(store, "IMPORT_DATA_FAIL"), success |-> FALSE,
                   message |-> "erro durante a importacao"]
    IN  IF parsed.thrown \/ parsed.value.kind = "null" THEN thrown
        ELSE IF MissingArray(parsed.value, "users")
                \/ MissingArray(parsed.value, "time_entries")
        THEN [store |-> store, success |-> FALSE, message |-> "arquivo invalido"]
        ELSE IF \/ ~HasForEach(parsed.value, "users")
                \/ ~HasForEach(parsed.value, "time_entries")
                \/ ~commits
        THEN thrown
        ELSE [store |->
                 logActivity(
                     [store EXCEPT
                         !.users = importUsersOf(@, parsed.value.fields.users.items),
                         !.time_entries =
                             importTimeEntriesOf(@, parsed.value.fields.time_entries.items)],
                     "IMPORT_DATA_SUCCESS"),
              success |-> TRUE, message |-> "importacao concluida"]

\* the documents a time_entries snapshot delivers: id, data and
\* timestamp.toDate()
entriesDataOf(entries) ==
    LET docs == DocsOfTimeEntries(entries)
    IN  Array([i \in 1..Len(docs) |->
            [id |-> docs[i], userId |-> entries[docs[i]].userId,
             timestamp |-> TimestampToDate(entries[docs[i]].timestamp),
             type |-> entries[docs[i]].type,
             observation |-> entries[docs[i]].observation]])

\* ------------------------------------------------------------------- state
VARIABLES
    timeEntries,                    \* App state: the time_entries snapshot
    workdayHours,                   \* appConfig.workdayHours
    filters,                        \* TimeReport state
    now,                            \* the clock read by new Date()
    mounted,                        \* the dashboards have rendered
    processedEntries,               \* TimeReport memo
    filteredEntries,                \* TimeReport memo
    entriesWithAccumulatedBalance,  \* TimeReport memo
    summaryStats,                   \* TimeReport memo
    processedDailyEntries,          \* EmployeeDashboard memo, per signed-in user
    dashboardTimeEntries,           \* EmployeeDashboard prop timeEntries, per user
    geolocationSupported,           \* navigator.geolocation is present
    configDocs,                     \* the contents the document config/main takes
    geofence,                       \* appConfig: latitude, longitude, radius
    locationState,                  \* EmployeeDashboard state
    locationError,                  \* EmployeeDashboard state
    positionRequests,               \* getCurrentPosition calls not yet answered
    requestsIssued,                 \* number of getCurrentPosition calls so far
    lastCallback,                   \* the answer that came last, with its request
    db,                             \* Firestore: users, time_entries, audit_logs
    backupFile,                     \* the text of the file exported last
    lastImport,                     \* the text imported last and the result returned
    currentUser,                    \* App state: the signed-in user's profile
    users,                          \* App state: the users snapshot
    authAccounts,                   \* Firebase Auth: the accounts, by uid
    authUser,                       \* Firebase Auth: auth.currentUser
    listenerFlow,                   \* the onAuthStateChanged callback in progress
    loginFlow,                      \* the handleLogin call in progress
    lastResult,                     \* what the last awaited operation returned
    observationModal,               \* EmployeeDashboard editingDay with the modal's entries
    editDayModal                    \* TimeReport editingDay with the modal's entries

vars == <<timeEntries, workdayHours, filters, now, timezoneOffset, mounted,
          processedEntries, filteredEntries, entriesWithAccumulatedBalance,
          summaryStats, processedDailyEntries, dashboardTimeEntries,
          geolocationSupported, configDocs, geofence, locationState, locationError,
          positionRequests, requestsIssued, lastCallback, db, backupFile,
          lastImport, currentUser, users, authAccounts, authUser, listenerFlow,
          loginFlow, lastResult, observationModal, editDayModal>>

memoVars == <<timeEntries, processedEntries, filteredEntries,
              entriesWithAccumulatedBalance, summaryStats, processedDailyEntries,
              dashboardTimeEntries>>
envVars == <<timezoneOffset, geolocationSupported, configDocs>>
locationVars == <<locationState, locationError, positionRequests, requestsIssued,
                  lastCallback>>
backupVars == <<backupFile, lastImport>>
sessionVars == <<currentUser, users, authAccounts, authUser, listenerFlow, loginFlow,
                 lastResult>>
modalVars == <<observationModal, editDayModal>>

\* the employee signed in at the dashboard whose location state is modelled
Employee == "u1"
\* the administrator
Administrator == "adm"
\* Role
ADMIN == "ADMIN"
EMPLOYEE == "EMPLOYEE"
\* no callback or call in progress
Idle == [pc |-> "idle"]

Users == {"u1", "u2"}

\* ------------------------------------------------------ inputs of the model
SeqsUpTo(S, n) == UNION {[1..k -> S] : k \in 0..n}

\* a snapshot: document i of the collection has id i
Snapshot(docs) ==
    Array([i \in 1..Len(docs) |->
        [id |-> i, userId |-> docs[i].userId, timestamp |-> docs[i].timestamp,
         type |-> docs[i].type, observation |-> docs[i].observation]])

\* one user's events of one day, between 08:00 and 13:00
OneDayDocs ==
    [userId : {"u1"}, timestamp : {At(0, 8), At(0, 12)},
     type : {ENTRADA}, observation : {""}]
    \cup [userId : {"u1"}, timestamp : {At(0, 12)},
          type : {INICIO_INTERVALO}, observation : {""}]
    \cup [userId : {"u1"}, timestamp : {At(0, 13)},
          type : {FIM_INTERVALO}, observation : {""}]
    \cup [userId : {"u1"}, timestamp : {At(0, 8), At(0, 13)},
          type : {SAIDA}, observation : {""}]

\* two users over two days
TwoUserDocs ==
    [userId : Users, timestamp : {At(0, 8), At(1, 8)},
     type : {ENTRADA}, observation : {""}]
    \cup [userId : {"u1"}, timestamp : {At(0, 13)},
          type : {SAIDA}, observation : {""}]

\* one user's noted events of one day
NotedDocs ==
    [userId : {"u1"}, timestamp : {At(0, 8)},
     type : {INICIO_INTERVALO}, observation : {"", "b"}]
    \cup [userId : {"u1"}, timestamp : {At(0, 12)},
          type : {INICIO_INTERVALO}, observation : {"", "a"}]

AggregatorInputs ==
    {Snapshot(d) : d \in SeqsUpTo(OneDayDocs, MaxEntries)
                         \cup SeqsUpTo(TwoUserDocs, MaxEntries)
                         \cup SeqsUpTo(NotedDocs, MaxEntries)}

\* the report of MaxDays days: each user has, on each day, no event or an
\* Entrada at 08:00 and a Saida after one of the durations (in minutes);
\* u2 works nine hours every day; `first` is the user whose documents come
\* first within a day
Days == 0..(MaxDays - 1)
Durations == [u \in Users |-> IF u = "u1" THEN {0, 450, 540, 600} ELSE {540}]
DayChoices == {c \in [Days \X Users -> {0, 450, 540, 600}] :
                  \A d \in Days, u \in Users : c[<<d, u>>] \in Durations[u]}

DayDocs(d, u, minutes) ==
    IF minutes = 0 THEN <<>>
    ELSE <<[userId |-> u, timestamp |-> At(d, 8), type |-> ENTRADA, observation |-> ""],
           [userId |-> u, timestamp |-> At(d, 8) + minutes * MsPerMinute,
            type |-> SAIDA, observation |-> ""]>>

ReportDocs(c, first) ==
    LET other == CHOOSE u \in Users : u # first
        F[d \in -1..(MaxDays - 1)] ==
            IF d = -1 THEN <<>>
            ELSE F[d - 1] \o DayDocs(d, first, c[<<d, first>>])
                          \o DayDocs(d, other, c[<<d, other>>])
    IN  F[MaxDays - 1]

ReportInputs == {Snapshot(ReportDocs(c, first)) : c \in DayChoices, first \in Users}

FilterUsers == {"all"} \cup Users
FilterDates == {NoDate, <<2024, 1, 31>>}

WorkdayOptions == {Hours(4), Hours(DefaultWorkdayHours)}

\* the geofence of App's initial appConfig
DefaultGeofence ==
    [latitude |-> DefaultLatitude, longitude |-> DefaultLongitude,
     radius |-> DefaultRadius]

\* contents of config/main that differ in workdayHours
WorkdayConfigs ==
    {DefaultGeofence @@ [workdayHours |-> hours] : hours \in WorkdayOptions}

\* contents of config/main that differ in the geofence: the default one, the
\* same workplace with radius 0, and a workplace 1000 millionths of a degree
\* (111 m) to the north with a radius of 50 m
GeofenceConfigs ==
    {[workdayHours |-> Hours(DefaultWorkdayHours), latitude |-> DefaultLatitude + north,
      longitude |-> DefaultLongitude, radius |-> radius] :
        <<north, radius>> \in {<<0, DefaultRadius>>, <<0, 0>>, <<1000, 50>>}}

\* the positions the device reports: at the default workplace, 9 m and 10.01 m
\* north of it
Positions ==
    {[latitude |-> DefaultLatitude + north, longitude |-> DefaultLongitude] :
        north \in {0, 81, 90}}

ErrorCodes == {PERMISSION_DENIED, POSITION_UNAVAILABLE, TIMEOUT}

\* the users collection before any import
StoredUsers ==
    [u \in Users \cup {Administrator} |->
        [name |-> CASE u = "u1" -> "Ana" [] u = "u2" -> "Bruno" [] OTHER -> "Admin",
         email |-> CASE u = "u1" -> "ana@x" [] u = "u2" -> "bruno@x" [] OTHER -> "admin@x",
         role |-> IF u = Administrator THEN ADMIN ELSE EMPLOYEE]]

\* the accounts of the stored users
StoredAccounts ==
    [u \in DOMAIN StoredUsers |-> [email |-> StoredUsers[u].email, password |-> "pw"]]

\* the store whose time_entries snapshot is `entries`
StoreOf(entries) ==
    [users |-> StoredUsers,
     time_entries |->
         [id \in {entries[i].id : i \in DOMAIN entries} |->
             LET e == entries[CHOOSE i \in DOMAIN entries : entries[i].id = id]
             IN  [userId |-> e.userId, timestamp |-> TimestampFromDate(e.timestamp),
                  type |-> e.type, observation |-> e.observation]],
     audit_logs |-> <<>>]

\* stored events for the backup: one with seconds and milliseconds, one late
\* in the evening of 30/01 and one late in the evening of 31/01, the last
\* day of the month
BackupDocs ==
    <<[userId |-> "u1", timestamp |-> At(0, 8) + 61234, type |-> ENTRADA,
       observation |-> "a"],
      [userId |-> "u1", timestamp |-> At(1, 22) + 999, type |-> SAIDA,
       observation |-> ""],
      [userId |-> "u2", timestamp |-> At(0, 22), type |-> ENTRADA,
       observation |-> ""],
      [userId |-> "u2", timestamp |-> At(2, 7) + 1, type |-> SAIDA,
       observation |-> ""]>>
BackupInputs == {Snapshot(SubSeq(BackupDocs, 1, k)) : k \in 0..MaxBackup}

\* records of a backup file
ChangedUser == [id |-> "u1", name |-> "Ana B", email |-> "ana@x", role |-> ADMIN]
NewUser == [id |-> "u3", name |-> "Caio", email |-> "caio@x", role |-> EMPLOYEE]
UserWithoutId == [name |-> "Davi", email |-> "davi@x", role |-> EMPLOYEE]
ChangedEntry ==
    [id |-> 1, userId |-> "u2", timestamp |-> <<2024, 1, 30, 11, 0, 0, 5>>,
     type |-> ENTRADA, observation |-> "b"]
NewEntry ==
    [id |-> 7, userId |-> "u1", timestamp |-> <<2024, 2, 1, 0, 30, 0, 0>>,
     type |-> SAIDA, observation |-> ""]
EntryWithoutTimestamp ==
    [id |-> 2, userId |-> "u2", type |-> ENTRADA, observation |-> "c"]
EntryWithoutId ==
    [userId |-> "u1", timestamp |-> <<2024, 1, 30, 12, 0, 0, 0>>,
     type |-> SAIDA, observation |-> ""]

\* the text of a backup file with these records
BackupText(userRecords, entries) ==
    Stringify(JsonObject([users |-> JsonArray(userRecords),
                          time_entries |-> JsonArray(entries),
                          exportedAt |-> JsonString]))

\* the files the administrator may choose: text that is not JSON, JSON that
\* is not an object, objects without one of the arrays, and backups
ImportContents ==
    {MalformedText, Stringify(JsonNull), Stringify(JsonNumber),
     Stringify(JsonObject([time_entries |-> JsonArray(<<NewEntry>>)])),
     Stringify(JsonObject([users |-> JsonArray(<<NewUser>>)])),
     Stringify(JsonObject([users |-> JsonString,
                           time_entries |-> JsonArray(<<NewEntry>>)])),
     Stringify(JsonObject([users |-> JsonArray(<<NewUser>>),
                           time_entries |-> JsonNull])),
     BackupText(<<>>, <<>>),
     BackupText(<<ChangedUser, UserWithoutId>>, <<>>),
     BackupText(<<NewUser>>, <<ChangedEntry, EntryWithoutTimestamp, EntryWithoutId>>),
     BackupText(<<>>, <<EntryWithoutTimestamp>>),
     BackupText(<<UserWithoutId>>, <<NewEntry>>)}

\* the browser in UTC and in the zone of Brasilia (UTC-3)
BrasiliaOffset == 180
TimezoneOffsets == {0, BrasiliaOffset}

\* ----------------------------------------------------------------- actions
\* one render of the dashboards: every memo is recomputed from the props
RenderFrom(entries, hours, f, today) ==
    \E processed \in {processedEntriesOf(entries, hours)} :
    \E accumulated \in {entriesWithAccumulatedBalanceOf(filteredEntriesOf(processed, f))} :
        /\ timeEntries' = SummaryEntriesToday(entries, today).self
        /\ processedEntries' = processed
        /\ filteredEntries' = accumulated.filteredEntries
        /\ entriesWithAccumulatedBalance' = accumulated.value
        /\ summaryStats' = summaryStatsOf(processed, entries, hours, today)
        /\ processedDailyEntries' =
               [u \in Users |-> processedDailyEntriesOf(EntriesOfUser(entries, u), hours)]
        /\ dashboardTimeEntries' =
               [u \in Users |-> todayEntriesOf(EntriesOfUser(entries, u), today).self]
        /\ mounted' = TRUE

\* EmployeeDashboard geolocation effect, run under the appConfig `config`
GeolocationEffect(config) ==
    IF ~geolocationSupported
    THEN /\ locationState' = "error"
         /\ locationError' = Some("Geolocalizacao nao e suportada")
         /\ UNCHANGED <<positionRequests, requestsIssued, lastCallback>>
    ELSE /\ positionRequests' =
                positionRequests \cup {[id |-> requestsIssued + 1, target |-> config]}
         /\ requestsIssued' = requestsIssued + 1
         /\ UNCHANGED <<locationState, locationError, lastCallback>>

\* the dashboards mount, or render again with the same props; the
\* geolocation effect runs at the mount
Render ==
    /\ RenderFrom(timeEntries, workdayHours, filters, now)
    /\ IF mounted THEN UNCHANGED locationVars ELSE GeolocationEffect(geofence)
    /\ UNCHANGED <<workdayHours, filters, now, geofence, envVars, db, backupVars,
                   sessionVars, modalVars>>

\* App config listener: setAppConfig(doc.data()), then the render it causes:
\* the memos are recomputed when workdayHours differs, and the geolocation
\* effect runs again, appConfig being a new object
ConfigSnapshot ==
    /\ mounted
    /\ geolocationSupported => requestsIssued < MaxRequests
    /\ \E config \in configDocs :
          /\ workdayHours' = config.workdayHours
          /\ geofence' = [latitude |-> config.latitude, longitude |-> config.longitude,
                          radius |-> config.radius]
          /\ IF config.workdayHours # workdayHours
             THEN RenderFrom(timeEntries, config.workdayHours, filters, now)
             ELSE UNCHANGED <<memoVars, mounted>>
          /\ GeolocationEffect(geofence')
    /\ UNCHANGED <<filters, now, envVars, db, backupVars, sessionVars, modalVars>>

\* TimeReport.handleFilterChange, then the render it causes
handleFilterChange ==
    /\ mounted
    /\ \E name \in {"userId", "startDate", "endDate"} :
       \E value \in (IF name = "userId" THEN FilterUsers ELSE FilterDates) \ {filters[name]} :
          /\ filters' = [filters EXCEPT ![name] = value]
          /\ RenderFrom(timeEntries, workdayHours, filters', now)
    /\ UNCHANGED <<workdayHours, now, geofence, envVars, locationVars, db, backupVars,
                   sessionVars, modalVars>>

\* the success callback of getCurrentPosition
PositionSuccess ==
    /\ \E request \in positionRequests : \E coords \in Positions :
          LET result == positionResultOf(coords, request.target)
          IN  /\ positionRequests' = positionRequests \ {request}
              /\ locationState' = result.locationState
              /\ locationError' = result.locationError
              /\ lastCallback' = Some([request |-> request, coords |-> Some(coords),
                                       code |-> None])
    /\ UNCHANGED <<memoVars, mounted, workdayHours, filters, now, geofence, envVars,
                   requestsIssued, db, backupVars, sessionVars, modalVars>>

\* the error callback of getCurrentPosition
PositionError ==
    /\ \E request \in positionRequests : \E code \in ErrorCodes :
          /\ positionRequests' = positionRequests \ {request}
          /\ locationState' = "error"
          /\ locationError' = Some(errorMessageOf(code))
          /\ lastCallback' = Some([request |-> request, coords |-> None,
                                   code |-> Some(code)])
    /\ UNCHANGED <<memoVars, mounted, workdayHours, filters, now, geofence, envVars,
                   requestsIssued, db, backupVars, sessionVars, modalVars>>

\* EmployeeDashboard.lastAction
lastActionOf(entries, today) ==
    LET todayEntries == todayEntriesOf(entries, today).ret
    IN  IF Len(todayEntries) > 0 THEN Some(todayEntries[Len(todayEntries)].type) ELSE None

\* App's render taking the administrator's dashboard for every role
dashboardOf_Admin(user) == "AdminDashboard"

\* App's render: currentUser.role === Role.ADMIN ? AdminDashboard :
\* EmployeeDashboard
dashboardOf(user) ==
    IF user.role = ADMIN THEN "AdminDashboard" ELSE "EmployeeDashboard"

\* the dashboard on the screen
Shown(dashboard) ==
    /\ mounted
    /\ currentUser # None
    /\ dashboardOf(currentUser[1]) = dashboard

\* the audit log has room for n more entries
AuditRoom(n) == Len(db.audit_logs) + n <= MaxAuditLogs

\* the id Firestore gives the next document of the collection
NewDocId(collection) ==
    IF DOMAIN collection = {} THEN 1
    ELSE 1 + CHOOSE i \in DOMAIN collection : \A j \in DOMAIN collection : j <= i

\* App.handleAddTimeEntry: addDoc, then the audit entry
addTimeEntryTo(store, entry) ==
    logActivity([store EXCEPT !.time_entries = @ @@ (NewDocId(@) :> entry)],
                "ADD_TIME_ENTRY")

\* a click on an action button that is not disabled: handleRegister and
\* App's handleAddTimeEntry; the clock then moves on a minute
handleRegister ==
    /\ Shown("EmployeeDashboard")
    /\ Cardinality(DOMAIN db.time_entries) < MaxEntries
    /\ AuditRoom(1)
    /\ \E type \in {ENTRADA, INICIO_INTERVALO, FIM_INTERVALO, SAIDA} :
          /\ ~buttonDisabled(type,
                 lastActionOf(EntriesOfUser(timeEntries, currentUser[1].id), now),
                 locationState)
          /\ db' = addTimeEntryTo(db, [userId |-> currentUser[1].id,
                                       timestamp |-> TimestampFromDate(now),
                                       type |-> type, observation |-> ""])
    /\ now' = now + MsPerMinute
    /\ UNCHANGED <<memoVars, mounted, workdayHours, filters, geofence, envVars,
                   locationVars, backupVars, sessionVars, modalVars>>

\* TimeReport.setEditingDay(row) with the state EditDayModal takes from
\* it: entries is day.originalEntries, and no Date object has been replaced
editingDayOf(row) ==
    Some([id |-> row.id, userId |-> row.userId, date |-> row.date,
          originalEntries |-> row.originalEntries, entries |-> row.originalEntries,
          retimed |-> {}])

\* TimeReport's effect on editingDay, run when processedEntries is a new
\* array: the modal takes the day's new row, EditDayModal's effect then
\* takes the row's originalEntries; without a row of that id it closes
syncEditingDay(modal, processed) ==
    IF modal = None THEN None
    ELSE LET found == SelectSeq(processed, LAMBDA row : row.id = modal[1].id)
         IN  IF Len(found) > 0 THEN editingDayOf(found[1]) ELSE None

\* App's time_entries listener: setTimeEntries(entriesData), and the render
\* it causes
TimeEntriesSnapshot ==
    /\ mounted
    /\ currentUser # None
    /\ timeEntries # entriesDataOf(db.time_entries)
    /\ RenderFrom(entriesDataOf(db.time_entries), workdayHours, filters, now)
    /\ editDayModal' = syncEditingDay(editDayModal, processedEntries')
    /\ UNCHANGED <<workdayHours, filters, now, geofence, envVars, locationVars, db,
                   backupVars, sessionVars, observationModal>>

\* App.handleUpdateTimeEntry: the audit entry, then updateDoc with every
\* field of the entry but its id; updateDoc of a missing document fails and
\* the failure is caught
updateTimeEntryIn(store, updatedEntry) ==
    LET data == [RestOf(updatedEntry) EXCEPT !.timestamp = TimestampFromDate(@)]
        logged == logActivity(store, "UPDATE_TIME_ENTRY")
    IN  IF updatedEntry.id \in DOMAIN store.time_entries
        THEN [logged EXCEPT !.time_entries[updatedEntry.id] = data @@ @]
        ELSE logged

\* entries.forEach(entry => onSave(entry)) over the entries to save
saveAllIn(store, entries) ==
    LET F[i \in 0..Len(entries)] ==
            IF i = 0 THEN store ELSE updateTimeEntryIn(F[i - 1], entries[i])
    IN  F[Len(entries)]

\* App.handleDeleteTimeEntry: nothing when the client's timeEntries has no
\* such entry; else the audit entry, then deleteDoc
deleteTimeEntryIn(store, entries, entryId) ==
    IF \A i \in DOMAIN entries : entries[i].id # entryId
    THEN store
    ELSE LET logged == logActivity(store, "DELETE_TIME_ENTRY")
         IN  [logged EXCEPT !.time_entries =
                 [id \in DOMAIN @ \ {entryId} |-> @[id]]]

\* the notes typed into a modal
TypedNotes == {"nota"}

\* arr.map(e => e.id === id ? {...e, ...changes} : e)
MapById(arr, id, changes) ==
    Array([i \in 1..Len(arr) |-> IF arr[i].id = id THEN changes @@ arr[i] ELSE arr[i]])

\* EmployeeDashboard: the edit button of a day, setEditingDay(day); the
\* modal's entries start as day.originalEntries
EmployeeDashboard_setEditingDay ==
    /\ Shown("EmployeeDashboard")
    /\ observationModal = None
    /\ \E n \in DOMAIN processedDailyEntries[currentUser[1].id] :
          LET day == processedDailyEntries[currentUser[1].id][n]
          IN  observationModal' = Some([date |-> day.date,
                                        entries |-> day.originalEntries])
    /\ UNCHANGED <<memoVars, mounted, workdayHours, filters, now, geofence, envVars,
                   locationVars, db, backupVars, sessionVars, editDayModal>>

\* EditObservationModal.handleObservationChange
EditObservationModal_handleObservationChange ==
    /\ Shown("EmployeeDashboard")
    /\ observationModal # None
    /\ \E i \in DOMAIN observationModal[1].entries : \E note \in TypedNotes :
          /\ observationModal[1].entries[i].observation # note
          /\ observationModal' =
                 Some([observationModal[1] EXCEPT !.entries =
                     MapById(@, @[i].id, [observation |-> note])])
    /\ UNCHANGED <<memoVars, mounted, workdayHours, filters, now, geofence, envVars,
                   locationVars, db, backupVars, sessionVars, editDayModal>>

\* EditObservationModal.handleSave: onSave for every entry of the modal,
\* then onClose
EditObservationModal_handleSave ==
    /\ Shown("EmployeeDashboard")
    /\ observationModal # None
    /\ AuditRoom(Len(observationModal[1].entries))
    /\ db' = saveAllIn(db, observationModal[1].entries)
    /\ observationModal' = None
    /\ UNCHANGED <<memoVars, mounted, workdayHours, filters, now, geofence, envVars,
                   locationVars, backupVars, sessionVars, editDayModal>>

\* EditObservationModal.onClose
EditObservationModal_onClose ==
    /\ Shown("EmployeeDashboard")
    /\ observationModal # None
    /\ observationModal' = None
    /\ UNCHANGED <<memoVars, mounted, workdayHours, filters, now, geofence, envVars,
                   locationVars, db, backupVars, sessionVars, editDayModal>>

\* an administrator at another client saves a later time for a stored
\* event: handleUpdateTimeEntry there
OtherAdminRetimes ==
    /\ Shown("EmployeeDashboard")
    /\ AuditRoom(1)
    /\ \E id \in DOMAIN db.time_entries :
          /\ TimestampToDate(db.time_entries[id].timestamp) % MsPerHour = 0
          /\ db' = updateTimeEntryIn(db,
                 [id |-> id, userId |-> db.time_entries[id].userId,
                  timestamp |-> TimestampToDate(db.time_entries[id].timestamp)
                                + 30 * MsPerMinute,
                  type |-> db.time_entries[id].type,
                  observation |-> db.time_entries[id].observation])
    /\ UNCHANGED <<memoVars, mounted, workdayHours, filters, now, geofence, envVars,
                   locationVars, backupVars, sessionVars, modalVars>>

\* TimeReport: the edit button of a row, setEditingDay(entry)
TimeReport_setEditingDay ==
    /\ Shown("AdminDashboard")
    /\ editDayModal = None
    /\ \E n \in DOMAIN entriesWithAccumulatedBalance :
          editDayModal' = editingDayOf(entriesWithAccumulatedBalance[n])
    /\ UNCHANGED <<memoVars, mounted, workdayHours, filters, now, geofence, envVars,
                   locationVars, db, backupVars, sessionVars, observationModal>>

\* EditDayModal.handleTimeChange: the entry gets a new Date, half an hour
\* later
EditDayModal_handleTimeChange ==
    /\ Shown("AdminDashboard")
    /\ editDayModal # None
    /\ \E i \in DOMAIN editDayModal[1].entries :
          LET id == editDayModal[1].entries[i].id
          IN  /\ id \notin editDayModal[1].retimed
              /\ editDayModal' =
                     Some([editDayModal[1] EXCEPT
                         !.entries = MapById(@, id,
                             [timestamp |-> @[i].timestamp + 30 * MsPerMinute]),
                         !.retimed = @ \cup {id}])
    /\ UNCHANGED <<memoVars, mounted, workdayHours, filters, now, geofence, envVars,
                   locationVars, db, backupVars, sessionVars, observationModal>>

\* EditDayModal.handleObservationChange
EditDayModal_handleObservationChange ==
    /\ Shown("AdminDashboard")
    /\ editDayModal # None
    /\ \E i \in DOMAIN editDayModal[1].entries : \E note \in TypedNotes :
          /\ editDayModal[1].entries[i].observation # note
          /\ editDayModal' =
                 Some([editDayModal[1] EXCEPT !.entries =
                     MapById(@, @[i].id, [observation |-> note])])
    /\ UNCHANGED <<memoVars, mounted, workdayHours, filters, now, geofence, envVars,
                   locationVars, db, backupVars, sessionVars, observationModal>>

\* EditDayModal.handleSaveUpdates: the entries whose Date object or whose
\* observation differs from the original's
changedEntriesOf(modal) ==
    SelectSeq(modal.entries,
        LAMBDA entry :
            \/ entry.id \in modal.retimed
            \/ \E k \in DOMAIN modal.originalEntries :
                   /\ modal.originalEntries[k].id = entry.id
                   /\ modal.originalEntries[k].observation # entry.observation)

\* EditDayModal.handleSaveUpdates: onSave for every changed entry, then
\* onClose
EditDayModal_handleSaveUpdates ==
    /\ Shown("AdminDashboard")
    /\ editDayModal # None
    /\ AuditRoom(Len(changedEntriesOf(editDayModal[1])))
    /\ db' = saveAllIn(db, changedEntriesOf(editDayModal[1]))
    /\ editDayModal' = None
    /\ UNCHANGED <<memoVars, mounted, workdayHours, filters, now, geofence, envVars,
                   locationVars, backupVars, sessionVars, observationModal>>

\* EditDayModal.handleDelete: onDelete(entryId)
EditDayModal_handleDelete ==
    /\ Shown("AdminDashboard")
    /\ editDayModal # None
    /\ AuditRoom(1)
    /\ \E i \in DOMAIN editDayModal[1].entries :
          db' = deleteTimeEntryIn(db, timeEntries, editDayModal[1].entries[i].id)
    /\ UNCHANGED <<memoVars, mounted, workdayHours, filters, now, geofence, envVars,
                   locationVars, backupVars, sessionVars, modalVars>>

\* EditDayModal.handleAddNewEntry: an Entrada at the time of the clock on the
\* day of the modal
EditDayModal_handleAddNewEntry ==
    /\ Shown("AdminDashboard")
    /\ editDayModal # None
    /\ Cardinality(DOMAIN db.time_entries) < MaxEntries
    /\ AuditRoom(1)
    /\ LET day == CHOOSE d \in -1..(MaxDays + 1) :
                      toLocaleDateString(d * MsPerDay) = editDayModal[1].date
       IN  db' = addTimeEntryTo(db,
                    [userId |-> editDayModal[1].userId,
                     timestamp |-> TimestampFromDate(day * MsPerDay + (now % MsPerDay)),
                     type |-> ENTRADA, observation |-> ""])
    /\ UNCHANGED <<memoVars, mounted, workdayHours, filters, now, geofence, envVars,
                   locationVars, backupVars, sessionVars, modalVars>>

\* EditDayModal.onClose
EditDayModal_onClose ==
    /\ Shown("AdminDashboard")
    /\ editDayModal # None
    /\ editDayModal' = None
    /\ UNCHANGED <<memoVars, mounted, workdayHours, filters, now, geofence, envVars,
                   locationVars, db, backupVars, sessionVars, observationModal>>

\* the messages of handleAdminSetUserPassword
ApenasAdministradores == "Apenas administradores podem realizar esta acao."
FuncionalidadeIndisponivel == "Funcionalidade indisponivel."

\* handleAdminSetUserPassword with a backend that sets the password
adminSetUserPasswordOf_Backend(user, store, accounts, userId, newPassword) ==
    IF user = None \/ user[1].role # ADMIN
    THEN [store |-> store, accounts |-> accounts,
          result |-> [success |-> FALSE, message |-> ApenasAdministradores]]
    ELSE [store |-> logActivity(store, "ADMIN_PASSWORD_SET_ATTEMPT"),
          accounts |-> IF userId \in DOMAIN accounts
                       THEN [accounts EXCEPT ![userId].password = newPassword]
                       ELSE accounts,
          result |-> [success |-> TRUE, message |-> "Senha alterada."]]

\* handleAdminSetUserPassword(userId, newPassword): the store and the
\* accounts it leaves and the result it returns
adminSetUserPasswordOf(user, store, accounts, userId, newPassword) ==
    IF user = None \/ user[1].role # ADMIN
    THEN [store |-> store, accounts |-> accounts,
          result |-> [success |-> FALSE, message |-> ApenasAdministradores]]
    ELSE [store |-> logActivity(store, "ADMIN_PASSWORD_SET_ATTEMPT"),
          accounts |-> accounts,
          result |-> [success |-> FALSE, message |-> FuncionalidadeIndisponivel]]

\* the user ids and the passwords given to handleAdminSetUserPassword
PasswordTargets == {Employee, "u9"}
NewPasswords == {"pw", "nova"}

\* App.handleAdminSetUserPassword, called with any session
handleAdminSetUserPassword ==
    /\ mounted
    /\ AuditRoom(1)
    /\ \E userId \in PasswordTargets : \E newPassword \in NewPasswords :
       \E outcome \in {adminSetUserPasswordOf(currentUser, db, authAccounts,
                                               userId, newPassword)} :
          /\ db' = outcome.store
          /\ authAccounts' = outcome.accounts
          /\ lastResult' = Some(outcome.result)
    /\ UNCHANGED <<memoVars, mounted, workdayHours, filters, now, geofence, envVars,
                   locationVars, backupVars, currentUser, users, authUser,
                   listenerFlow, loginFlow, modalVars>>

\* App.handleExportData: the file is downloaded, or reading a collection
\* fails; either way the audit log gets an entry
handleExportData ==
    /\ mounted
    /\ Len(db.audit_logs) < MaxAuditLogs
    /\ \E fetched \in BOOLEAN :
          IF fetched
          THEN /\ backupFile' = Some(exportFileOf(db, now))
               /\ db' = logActivity(db, "EXPORT_DATA_SUCCESS")
          ELSE /\ backupFile' = backupFile
               /\ db' = logActivity(db, "EXPORT_DATA_FAIL")
    /\ UNCHANGED <<memoVars, mounted, workdayHours, filters, now, geofence, envVars,
                   locationVars, lastImport, sessionVars, modalVars>>

\* App.handleImportData on the text of a chosen file, with the snapshot and
\* the render that a committed batch causes
handleImportData ==
    /\ mounted
    /\ Len(db.audit_logs) < MaxAuditLogs
    /\ \E fileContent \in ImportContents \cup {backupFile[i] : i \in DOMAIN backupFile} :
       \E commits \in BOOLEAN :
       \E outcome \in {importOutcomeOf(db, fileContent, commits)} :
          /\ db' = outcome.store
          /\ lastImport' = Some([fileContent |-> fileContent, commits |-> commits,
                                 success |-> outcome.success,
                                 message |-> outcome.message])
          /\ IF outcome.success
             THEN RenderFrom(entriesDataOf(db'.time_entries), workdayHours, filters, now)
             ELSE UNCHANGED <<memoVars, mounted>>
    /\ UNCHANGED <<workdayHours, filters, now, geofence, envVars, locationVars,
                   backupFile, sessionVars, modalVars>>

\* ------------------------------------------------------------- the session
\* what the session's steps leave alone
clientVars == <<memoVars, mounted, workdayHours, filters, now, geofence, envVars,
                locationVars, backupVars, modalVars>>

\* String.toLowerCase on the names and e-mails of the model
toLowerCase(s) ==
    CASE s = "Ana" -> "ana" [] s = "ANA" -> "ana" [] s = "Bruno" -> "bruno"
      [] s = "Admin" -> "admin" [] s = "Caio" -> "caio" [] s = "ANA@X" -> "ana@x"
      [] OTHER -> s

\* { id: doc.id, ...doc.data() }
profileOf(store, id) == store.users[id] @@ [id |-> id]

\* query(collection(db, "users"), where("email", "==", email)): the ids of
\* the documents found, in document order
QueryByEmail(store, email) ==
    SelectSeq(DocsOfUsers(store.users), LAMBDA id : store.users[id].email = email)

\* the document snapshot a read returned
docSnapshot(store, id) == [id |-> id, data |-> store.users[id]]

\* getDoc(doc(db, "users", user.uid)) has returned
afterGetDoc(flow, store) ==
    IF flow.uid \in DOMAIN store.users
    THEN [pc |-> "profile", uid |-> flow.uid, profile |-> Some(profileOf(store, flow.uid))]
    ELSE [pc |-> "query", uid |-> flow.uid]

\* the fallback lookup by e-mail has returned: querySnapshot.docs[0] goes to
\* autoFixUserInconsistency
afterQuery(flow, store, accounts) ==
    LET docs == QueryByEmail(store, accounts[flow.uid].email)
    IN  IF docs # <<>>
        THEN [pc |-> "fixQuery", uid |-> flow.uid, doc |-> docSnapshot(store, docs[1])]
        ELSE [pc |-> "profile", uid |-> flow.uid, profile |-> None]

\* autoFixUserInconsistency: getDocs of the time entries with the old id
afterFixQuery(flow, store) ==
    [pc |-> "fixCommit", uid |-> flow.uid, doc |-> flow.doc,
     ids |-> {id \in DOMAIN store.time_entries :
                 store.time_entries[id].userId = flow.doc.id}]

\* autoFixUserInconsistency: batch.commit() of set(users/uid),
\* update(userId) of the entries found and delete(users/oldId), applied in
\* that order and all or none; batch.update of a document that is gone, and
\* a commit the environment refuses, fail the batch; the value returned is
\* { id: correctUid, ...userProfileData } or null
autoFixCommitOf(store, uid, doc, ids, commits) ==
    IF ~commits \/ \E id \in ids : id \notin DOMAIN store.time_entries
    THEN [store |-> store, corrected |-> None]
    ELSE LET written == [id \in DOMAIN store.users \cup {uid} |->
                            IF id = uid THEN doc.data ELSE store.users[id]]
         IN  [store |->
                 [store EXCEPT
                     !.users = [id \in DOMAIN written \ {doc.id} |-> written[id]],
                     !.time_entries = [id \in DOMAIN @ |->
                                          IF id \in ids THEN [@[id] EXCEPT !.userId = uid]
                                          ELSE @[id]]],
              corrected |-> Some(doc.data @@ [id |-> uid])]

\* onAuthStateChanged callback, user signed in: getDoc by uid has returned
Listener_getDoc ==
    /\ listenerFlow.pc = "getDoc"
    /\ \E next \in {afterGetDoc(listenerFlow, db)} :
          IF next.pc = "profile"
          THEN /\ currentUser' = next.profile
               /\ listenerFlow' = Idle
          ELSE /\ listenerFlow' = next
               /\ UNCHANGED currentUser
    /\ UNCHANGED <<clientVars, db, users, authAccounts, authUser, loginFlow, lastResult>>

\* onAuthStateChanged callback: the query by e-mail has returned; with no
\* profile: signOut(auth) and setCurrentUser(null)
Listener_query ==
    /\ listenerFlow.pc = "query"
    /\ \E next \in {afterQuery(listenerFlow, db, authAccounts)} :
          IF next.pc = "profile"
          THEN /\ authUser' = None
               /\ currentUser' = None
               /\ listenerFlow' = Idle
          ELSE /\ listenerFlow' = next
               /\ UNCHANGED <<authUser, currentUser>>
    /\ UNCHANGED <<clientVars, db, users, authAccounts, loginFlow, lastResult>>

\* autoFixUserInconsistency called by the listener: the time entries of the
\* old id have been read
Listener_fixQuery ==
    /\ listenerFlow.pc = "fixQuery"
    /\ listenerFlow' = afterFixQuery(listenerFlow, db)
    /\ UNCHANGED <<clientVars, db, users, authAccounts, authUser, currentUser,
                   loginFlow, lastResult>>

\* autoFixUserInconsistency called by the listener: the batch has committed
\* or failed; setCurrentUser(correctedUser), or signOut and
\* setCurrentUser(null)
Listener_fixCommit ==
    /\ listenerFlow.pc = "fixCommit"
    /\ \E commits \in BOOLEAN :
       \E outcome \in {autoFixCommitOf(db, listenerFlow.uid, listenerFlow.doc,
                                        listenerFlow.ids, commits)} :
          /\ db' = outcome.store
          /\ currentUser' = outcome.corrected
          /\ authUser' = IF outcome.corrected = None THEN None ELSE authUser
    /\ listenerFlow' = Idle
    /\ UNCHANGED <<clientVars, users, authAccounts, loginFlow, lastResult>>

\* logAnonymousActivity(action): addDoc to audit_logs
logAnonymousActivity(store, action) ==
    [store EXCEPT !.audit_logs = Append(@, action)]

\* what is typed into the login form
LoginNames == {"ana", "bruno@x", "admin@x"}
LoginPasswords == {"pw", "errada"}

\* the result of handleLogin
LoginFailed(error) == Some([success |-> FALSE, error |-> error])
LoginSucceeded == Some([success |-> TRUE])

\* App.handleLogin up to signInWithEmailAndPassword: the e-mail is that of
\* the user document with the typed name, or what was typed; a sign-in fires
\* the auth state listener, a refused one ends in the catch block
handleLogin ==
    /\ currentUser = None
    /\ loginFlow = Idle
    /\ listenerFlow = Idle
    /\ AuditRoom(1)
    /\ \E nameOrEmail \in LoginNames : \E password \in LoginPasswords :
       LET found == SelectSeq(DocsOfUsers(db.users),
                        LAMBDA id : toLowerCase(db.users[id].name) = toLowerCase(nameOrEmail))
           email == IF found # <<>> THEN db.users[found[1]].email ELSE nameOrEmail
           uids == {uid \in DOMAIN authAccounts :
                       /\ authAccounts[uid].email = email
                       /\ authAccounts[uid].password = password}
       IN  IF uids # {}
           THEN \E uid \in uids :
                   /\ authUser' = Some(uid)
                   /\ listenerFlow' = [pc |-> "getDoc", uid |-> uid]
                   /\ loginFlow' = [pc |-> "getDoc", uid |-> uid]
                   /\ lastResult' = None
                   /\ UNCHANGED db
           ELSE /\ db' = logAnonymousActivity(db, "USER_LOGIN_FAIL")
                /\ lastResult' = LoginFailed("credenciais invalidas")
                /\ UNCHANGED <<authUser, listenerFlow, loginFlow>>
    /\ UNCHANGED <<clientVars, currentUser, users, authAccounts>>

\* handleLogin: the verified profile is logged and success returned
LoginVerified ==
    /\ db' = logActivity(db, "USER_LOGIN_SUCCESS")
    /\ lastResult' = LoginSucceeded
    /\ loginFlow' = Idle
    /\ UNCHANGED <<authUser, currentUser>>

\* handleLogin, step 4: getDoc by uid has returned
Login_getDoc ==
    /\ loginFlow.pc = "getDoc"
    /\ \E next \in {afterGetDoc(loginFlow, db)} :
          IF next.pc = "profile"
          THEN LoginVerified
          ELSE /\ loginFlow' = next
               /\ UNCHANGED <<db, lastResult, authUser, currentUser>>
    /\ UNCHANGED <<clientVars, users, authAccounts, listenerFlow>>

\* handleLogin: the query by e-mail has returned; with no profile: signOut,
\* the listener's setCurrentUser(null), USER_LOGIN_FAIL_NO_PROFILE
Login_query ==
    /\ loginFlow.pc = "query"
    /\ \E next \in {afterQuery(loginFlow, db, authAccounts)} :
          IF next.pc = "profile"
          THEN /\ authUser' = None
               /\ currentUser' = None
               /\ db' = logAnonymousActivity(db, "USER_LOGIN_FAIL_NO_PROFILE")
               /\ lastResult' = LoginFailed("perfil nao encontrado")
               /\ loginFlow' = Idle
          ELSE /\ loginFlow' = next
               /\ UNCHANGED <<db, lastResult, authUser, currentUser>>
    /\ UNCHANGED <<clientVars, users, authAccounts, listenerFlow>>

\* autoFixUserInconsistency called by handleLogin: the time entries of the
\* old id have been read
Login_fixQuery ==
    /\ loginFlow.pc = "fixQuery"
    /\ loginFlow' = afterFixQuery(loginFlow, db)
    /\ UNCHANGED <<clientVars, db, users, authAccounts, authUser, currentUser,
                   listenerFlow, lastResult>>

\* autoFixUserInconsistency called by handleLogin: the batch has committed
\* or failed; success is logged and returned, or signOut (and the listener's
\* setCurrentUser(null)) and the failure returned
Login_fixCommit ==
    /\ loginFlow.pc = "fixCommit"
    /\ \E commits \in BOOLEAN :
       \E outcome \in {autoFixCommitOf(db, loginFlow.uid, loginFlow.doc,
                                        loginFlow.ids, commits)} :
          IF outcome.corrected # None
          THEN /\ db' = logActivity(outcome.store, "USER_LOGIN_SUCCESS")
               /\ lastResult' = LoginSucceeded
               /\ UNCHANGED <<authUser, currentUser>>
          ELSE /\ db' = outcome.store
               /\ authUser' = None
               /\ currentUser' = None
               /\ lastResult' = LoginFailed("falha na correcao automatica")
    /\ loginFlow' = Idle
    /\ UNCHANGED <<clientVars, users, authAccounts, listenerFlow>>

\* App.handleLogout: USER_LOGOUT is logged and signOut fires the listener
\* with null; the call returns nothing
handleLogout ==
    /\ currentUser # None
    /\ loginFlow = Idle
    /\ listenerFlow = Idle
    /\ AuditRoom(1)
    /\ db' = logActivity(db, "USER_LOGOUT")
    /\ authUser' = None
    /\ currentUser' = None
    /\ lastResult' = None
    /\ UNCHANGED <<clientVars, users, authAccounts, listenerFlow, loginFlow>>

\* users snapshot listener: setUsers(snapshot.docs.map(...))
usersDataOf(store) ==
    LET docs == DocsOfUsers(store.users)
    IN  [i \in DOMAIN docs |-> profileOf(store, docs[i])]

\* the users snapshot is delivered
UsersSnapshot ==
    /\ currentUser # None
    /\ users # usersDataOf(db)
    /\ users' = usersDataOf(db)
    /\ UNCHANGED <<clientVars, db, currentUser, authAccounts, authUser, listenerFlow,
                   loginFlow, lastResult>>

\* what is typed into the new-user form: a name that differs from a stored
\* one in case only, a new name, a stored e-mail in capitals, a new e-mail
NewUserForms ==
    {[name |-> "ANA", email |-> "ana2@x"], [name |-> "Caio", email |-> "caio@x"],
     [name |-> "Caio", email |-> "ANA@X"], [name |-> "Caio", email |-> "caio2@x"]}

\* the uid Firebase Auth gives the next account
NewUids == <<"u3", "u4", "u5">>
FreeUids(accounts) == SelectSeq(NewUids, LAMBDA uid : uid \notin DOMAIN accounts)

\* users.some(u => u.name.toLowerCase() === user.name.toLowerCase()
\*                 || u.email.toLowerCase() === user.email.toLowerCase())
duplicateIn(list, user) ==
    \E i \in DOMAIN list :
        \/ toLowerCase(list[i].name) = toLowerCase(user.name)
        \/ toLowerCase(list[i].email) = toLowerCase(user.email)

\* createUserWithEmailAndPassword refuses an e-mail that an account has
\* (auth/email-already-in-use); e-mails are compared in lower case
emailInUse(accounts, email) ==
    \E uid \in DOMAIN accounts : toLowerCase(accounts[uid].email) = toLowerCase(email)

UsuarioJaExiste == "Usuario com este nome ou e-mail ja existe."
FalhaAoCriar == "Falha ao criar usuario."

\* App.handleAddUser: the alert on a duplicate in the client's list of users;
\* else the new account (which signs the new user in and fires the auth
\* listener), the user document under its uid and the CREATE_USER entry; a
\* refused account ends in the catch block
handleAddUser ==
    /\ Shown("AdminDashboard")
    /\ listenerFlow = Idle
    /\ \E user \in NewUserForms : \E role \in {EMPLOYEE, ADMIN} :
          IF duplicateIn(users, user)
          THEN /\ lastResult' = Some([success |-> FALSE, message |-> UsuarioJaExiste])
               /\ UNCHANGED <<db, authAccounts, authUser, listenerFlow>>
          ELSE IF emailInUse(authAccounts, user.email)
          THEN /\ lastResult' = Some([success |-> FALSE, message |-> FalhaAoCriar])
               /\ UNCHANGED <<db, authAccounts, authUser, listenerFlow>>
          ELSE /\ FreeUids(authAccounts) # <<>>
               /\ AuditRoom(1)
               /\ \E uid \in {FreeUids(authAccounts)[1]} :
                     /\ authAccounts' = authAccounts @@
                            (uid :> [email |-> toLowerCase(user.email), password |-> "pw"])
                     /\ authUser' = Some(uid)
                     /\ listenerFlow' = [pc |-> "getDoc", uid |-> uid]
                     /\ db' = logActivity(
                                  [db EXCEPT !.users = @ @@
                                      (uid :> [name |-> user.name, email |-> user.email,
                                               role |-> role])],
                                  "CREATE_USER")
               /\ lastResult' = None
    /\ UNCHANGED <<clientVars, currentUser, users, loginFlow>>

\* the id under which Ana's profile was stored before her account existed
OldId == "old1"

\* an administrator adds, in another session, an event to a day of the user
\* listed under the old id (EditDayModal.handleAddNewEntry with day.userId)
OtherAdminAddsEntry ==
    /\ Cardinality(DOMAIN db.time_entries) < MaxEntries
    /\ AuditRoom(1)
    /\ db' = addTimeEntryTo(db, [userId |-> OldId,
                                 timestamp |-> TimestampFromDate(At(-1, 18)),
                                 type |-> SAIDA, observation |-> ""])
    /\ UNCHANGED <<clientVars, sessionVars>>

UnmountedClient ==
    /\ mounted = FALSE
    /\ processedEntries = <<>>
    /\ filteredEntries = <<>>
    /\ entriesWithAccumulatedBalance = <<>>
    /\ summaryStats = <<>>
    /\ processedDailyEntries = [u \in Users |-> <<>>]
    /\ dashboardTimeEntries = [u \in Users |-> <<>>]
    /\ filters = DefaultFilters
    /\ workdayHours = Hours(DefaultWorkdayHours)
    /\ geofence = DefaultGeofence
    /\ locationState = "checking"
    /\ locationError = None
    /\ positionRequests = {}
    /\ requestsIssued = 0
    /\ lastCallback = None
    /\ backupFile = None
    /\ lastImport = None
    /\ authAccounts = StoredAccounts
    /\ loginFlow = Idle
    /\ lastResult = None
    /\ observationModal = None
    /\ editDayModal = None

\* the client before the first render, over the store whose snapshot it holds
Unmounted ==
    /\ UnmountedClient
    /\ db = StoreOf(timeEntries)

\* the session of a user whose profile is stored under the account's uid,
\* before the users snapshot has come
SignedIn(uid) ==
    /\ listenerFlow = Idle
    /\ authUser = Some(uid)
    /\ currentUser = Some(StoredUsers[uid] @@ [id |-> uid])
    /\ users = <<>>

\* no session: the login screen
SignedOut ==
    /\ listenerFlow = Idle
    /\ authUser = None
    /\ currentUser = None
    /\ users = <<>>

Init ==
    /\ timeEntries \in AggregatorInputs
    /\ now = At(0, 18)
    /\ timezoneOffset = BrasiliaOffset
    /\ geolocationSupported = FALSE
    /\ configDocs = WorkdayConfigs
    /\ Unmounted
    /\ SignedIn(Administrator)

Next == Render \/ ConfigSnapshot

Spec == Init /\ [][Next]_vars

\* the report with its filters, over a few days of complete records
InitReport ==
    /\ timeEntries \in ReportInputs
    /\ now = At(0, 18)
    /\ timezoneOffset \in TimezoneOffsets
    /\ geolocationSupported = FALSE
    /\ configDocs = WorkdayConfigs
    /\ Unmounted
    /\ SignedIn(Administrator)

NextReport == Render \/ handleFilterChange

SpecReport == InitReport /\ [][NextReport]_vars

\* the summary over the turn of a month: on each day u1 has no event or one
\* of the shifts, u2 a Saida only
Shifts ==
    {<<>>,
     <<[type |-> ENTRADA, hh |-> 8, mm |-> 0], [type |-> SAIDA, hh |-> 17, mm |-> 10]>>,
     <<[type |-> ENTRADA, hh |-> 9, mm |-> 0], [type |-> SAIDA, hh |-> 13, mm |-> 0]>>,
     <<[type |-> ENTRADA, hh |-> 10, mm |-> 0]>>}

ShiftDocs(d, u, shift) ==
    Array([i \in 1..Len(shift) |->
        [userId |-> u, timestamp |-> At(d, shift[i].hh) + shift[i].mm * MsPerMinute,
         type |-> shift[i].type, observation |-> ""]])

SummaryDocs(c) ==
    LET F[d \in -1..(MaxDays - 1)] ==
            IF d = -1 THEN <<>>
            ELSE F[d - 1] \o ShiftDocs(d, "u1", c[d])
                          \o ShiftDocs(d, "u2", <<[type |-> SAIDA, hh |-> 17, mm |-> 0]>>)
    IN  F[MaxDays - 1]

SummaryInputs == {Snapshot(SummaryDocs(c)) : c \in [Days -> Shifts]}

\* the evening of 31/01/2024 or of 01/02/2024
InitSummary ==
    /\ timeEntries \in SummaryInputs
    /\ now \in {At(1, 18), At(2, 18)}
    /\ timezoneOffset \in TimezoneOffsets
    /\ geolocationSupported = FALSE
    /\ configDocs = WorkdayConfigs
    /\ Unmounted
    /\ SignedIn(Administrator)

SpecSummary == InitSummary /\ [][Next]_vars

\* the events an employee stored the day before
EarlierDocs(u) ==
    [i \in 1..(MaxEntries - 2) |->
        [userId |-> u, timestamp |-> At(-1, 8) + i * MsPerHour,
         type |-> IF i % 2 = 1 THEN ENTRADA ELSE SAIDA, observation |-> ""]]

\* the employee dashboard with its geofence, the employee having no event
InitGeofence ==
    /\ timeEntries = Snapshot(EarlierDocs("u2"))
    /\ now = At(0, 8)
    /\ timezoneOffset = BrasiliaOffset
    /\ geolocationSupported \in BOOLEAN
    /\ configDocs = GeofenceConfigs
    /\ Unmounted
    /\ SignedIn(Employee)

NextGeofence ==
    \/ Render \/ ConfigSnapshot \/ PositionSuccess \/ PositionError
    \/ handleRegister \/ TimeEntriesSnapshot

SpecGeofence == InitGeofence /\ [][NextGeofence]_vars

\* either dashboard, the employee having stored an Entrada the day before
InitDashboard ==
    /\ timeEntries = Snapshot(SubSeq(EarlierDocs(Employee), 1, 1))
    /\ now = At(0, 8)
    /\ timezoneOffset = BrasiliaOffset
    /\ geolocationSupported = TRUE
    /\ configDocs = WorkdayConfigs
    /\ Unmounted
    /\ \/ \E uid \in {Employee, Administrator} : SignedIn(uid)
       \/ SignedOut

NextDashboard ==
    \/ Render \/ TimeEntriesSnapshot \/ PositionSuccess \/ handleRegister
    \/ EmployeeDashboard_setEditingDay
    \/ EditObservationModal_handleObservationChange
    \/ EditObservationModal_handleSave
    \/ EditObservationModal_onClose
    \/ OtherAdminRetimes
    \/ TimeReport_setEditingDay
    \/ EditDayModal_handleTimeChange
    \/ EditDayModal_handleObservationChange
    \/ EditDayModal_handleSaveUpdates
    \/ EditDayModal_handleDelete
    \/ EditDayModal_handleAddNewEntry
    \/ EditDayModal_onClose
    \/ handleAdminSetUserPassword

SpecDashboard == InitDashboard /\ [][NextDashboard]_vars

\* the administrator's backup, from a store of a few events
InitBackup ==
    /\ timeEntries \in BackupInputs
    /\ now = At(2, 18)
    /\ timezoneOffset \in TimezoneOffsets
    /\ geolocationSupported = FALSE
    /\ configDocs = WorkdayConfigs
    /\ Unmounted
    /\ SignedIn(Administrator)

NextBackup == Render \/ handleExportData \/ handleImportData

SpecBackup == InitBackup /\ [][NextBackup]_vars

\* the store in which Ana's profile and her events are under the old id, and
\* Bruno has an account and no profile
MisfiledStore ==
    [users |-> (Administrator :> StoredUsers[Administrator])
                  @@ (OldId :> StoredUsers[Employee]),
     time_entries |-> (1 :> [userId |-> OldId,
                             timestamp |-> TimestampFromDate(At(-1, 9)),
                             type |-> ENTRADA, observation |-> ""]),
     audit_logs |-> <<>>]

\* the login screen, or a page load with a persisted session for which the
\* auth state listener has just fired
InitAuth ==
    /\ timeEntries = <<>>
    /\ now = At(0, 8)
    /\ timezoneOffset = BrasiliaOffset
    /\ geolocationSupported = TRUE
    /\ configDocs = WorkdayConfigs
    /\ UnmountedClient
    /\ db = MisfiledStore
    /\ currentUser = None
    /\ users = <<>>
    /\ \/ SignedOut
       \/ \E uid \in DOMAIN StoredAccounts :
             /\ authUser = Some(uid)
             /\ listenerFlow = [pc |-> "getDoc", uid |-> uid]

NextAuth ==
    \/ handleLogin \/ Login_getDoc \/ Login_query \/ Login_fixQuery \/ Login_fixCommit
    \/ Listener_getDoc \/ Listener_query \/ Listener_fixQuery \/ Listener_fixCommit
    \/ handleLogout \/ OtherAdminAddsEntry

SpecAuth == InitAuth /\ [][NextAuth]_vars

\* the administrator's dashboard before the first users snapshot
InitUsers ==
    /\ timeEntries = <<>>
    /\ now = At(0, 8)
    /\ timezoneOffset = BrasiliaOffset
    /\ geolocationSupported = FALSE
    /\ configDocs = WorkdayConfigs
    /\ Unmounted
    /\ SignedIn(Administrator)

NextUsers == Render \/ UsersSnapshot \/ handleAddUser \/ Listener_getDoc

SpecUsers == InitUsers /\ [][NextUsers]_vars

\* ============================================================== properties
\* the rows of both dashboards
EveryRow(P(_)) ==
    /\ \A n \in DOMAIN processedEntries : P(processedEntries[n])
    /\ \A u \in Users : \A n \in DOMAIN processedDailyEntries[u] :
           P(processedDailyEntries[u][n])

SomeReportRow(P(_)) == \E n \in DOMAIN processedEntries : P(processedEntries[n])

\* the events of the snapshot that belong to a TimeReport row
EventsOfRow(r) ==
    {i \in DOMAIN timeEntries :
        /\ timeEntries[i].userId = r.userId
        /\ toLocaleDateString(timeEntries[i].timestamp) = r.date}

KindsOf(events) == {e.type : e \in events}
Elements(arr) == {arr[i] : i \in DOMAIN arr}
Max0(x) == IF x > 0 THEN x ELSE 0
HasBoth(r) == r.entrada # None /\ r.saida # None
HasBreak(r) == r.inicioIntervalo # None /\ r.fimIntervalo # None

\* (saida - entrada) - (fimIntervalo - inicioIntervalo), in milliseconds
SlotMillis(r) ==
    (r.saida[1] - r.entrada[1])
    - (IF HasBreak(r) THEN r.fimIntervalo[1] - r.inicioIntervalo[1] ELSE 0)

\* workedHours hours are workedHours * MsPerMinute milliseconds
HoursInMillis(hours) == hours * MsPerMinute

WorkedHoursFromSlots(r) ==
    IF HasBoth(r) THEN HoursInMillis(r.workedHours) = Max0(SlotMillis(r))
    ELSE r.workedHours = 0

\* C1: in every row of either dashboard, workedHours is
\* max(0, (saida - entrada) - (fimIntervalo - inicioIntervalo)) in hours over
\* the row's own slots, the break being subtracted only when both break slots
\* are present, and 0 when entrada or saida is absent.
C1_WorkedHours == EveryRow(WorkedHoursFromSlots)

\* a row with the four slots, a break of positive length and hours left over
C1_Witness ==
    /\ mounted
    /\ SomeReportRow(LAMBDA r :
          /\ HasBoth(r) /\ HasBreak(r)
          /\ r.fimIntervalo[1] > r.inicioIntervalo[1]
          /\ r.workedHours > 0
          /\ HoursInMillis(r.workedHours) < r.saida[1] - r.entrada[1])

\* the day 08:00 / 12:00 / 13:00 / 17:00 of the specification's example
ExampleDay ==
    Snapshot(<<[userId |-> "u1", timestamp |-> At(0, 8), type |-> ENTRADA, observation |-> ""],
               [userId |-> "u1", timestamp |-> At(0, 12), type |-> INICIO_INTERVALO,
                observation |-> ""],
               [userId |-> "u1", timestamp |-> At(0, 13), type |-> FIM_INTERVALO,
                observation |-> ""],
               [userId |-> "u1", timestamp |-> At(0, 17), type |-> SAIDA, observation |-> ""]>>)

BalanceFromHours(r) ==
    r.balance = IF HasBoth(r) THEN r.workedHours - workdayHours ELSE 0

\* C2: in every row, balance is workedHours minus the configured workday hours
\* when entrada and saida are both present and 0 otherwise; the example day
\* with an 8-hour workday has workedHours 8 and balance 0.
C2_Balance ==
    /\ EveryRow(BalanceFromHours)
    /\ LET rows == processedEntriesOf(ExampleDay, Hours(8))
       IN  /\ Len(rows) = 1
           /\ rows[1].workedHours = Hours(8)
           /\ rows[1].balance = 0
           /\ rows[1].status = "Completo"

\* a complete row with a positive balance under a workday other than the
\* default
C2_Witness ==
    /\ mounted
    /\ workdayHours # Hours(DefaultWorkdayHours)
    /\ SomeReportRow(LAMBDA r : HasBoth(r) /\ r.workedHours > 0 /\ r.balance > 0)

\* C3: a row is "Completo" exactly when its group of events holds an Entrada
\* and a Saida, whatever the other events and the order of the timestamps.
C3_Status ==
    /\ \A n \in DOMAIN processedEntries :
          LET r == processedEntries[n]
              kinds == KindsOf({timeEntries[i] : i \in EventsOfRow(r)})
          IN  /\ r.status \in {"Completo", "Incompleto"}
              /\ r.status = "Completo" <=> (ENTRADA \in kinds /\ SAIDA \in kinds)
    /\ \A u \in Users : \A n \in DOMAIN processedDailyEntries[u] :
          LET r == processedDailyEntries[u][n]
              kinds == KindsOf(Elements(r.originalEntries))
          IN  /\ r.status \in {"Completo", "Incompleto"}
              /\ r.status = "Completo" <=> (ENTRADA \in kinds /\ SAIDA \in kinds)

\* a complete row whose Saida is earlier than its Entrada and that has a
\* break start without a break end
C3_Witness ==
    /\ mounted
    /\ SomeReportRow(LAMBDA r :
          /\ r.status = "Completo"
          /\ r.saida[1] < r.entrada[1]
          /\ r.inicioIntervalo # None /\ r.fimIntervalo = None)

BreakKinds == {INICIO_INTERVALO, FIM_INTERVALO}

\* the rows whose group holds an Entrada and a Saida and no break event
NoBreakDay(r) ==
    LET kinds == KindsOf(Elements(r.originalEntries))
    IN  ENTRADA \in kinds /\ SAIDA \in kinds /\ kinds \cap BreakKinds = {}

\* C4 as stated: on a day with an Entrada and a Saida and no break event,
\* workedHours is exactly (saida - entrada) in hours and the status is
\* "Completo", for every pair of timestamps.
C4_Original ==
    EveryRow(LAMBDA r : NoBreakDay(r) =>
        /\ HoursInMillis(r.workedHours) = r.saida[1] - r.entrada[1]
        /\ r.status = "Completo")

\* C4 as amended: on such a day workedHours is (saida - entrada) in hours when
\* the Saida is not earlier than the Entrada and 0 when it is earlier, and the
\* status is "Completo" in both cases.
C4_NoBreakDay ==
    EveryRow(LAMBDA r : NoBreakDay(r) =>
        /\ r.saida[1] >= r.entrada[1] =>
               HoursInMillis(r.workedHours) = r.saida[1] - r.entrada[1]
        /\ r.saida[1] < r.entrada[1] => r.workedHours = 0
        /\ r.status = "Completo")

\* a day without break events, worked from 08:00 to 13:00
C4_Witness ==
    /\ mounted
    /\ SomeReportRow(LAMBDA r :
          /\ NoBreakDay(r)
          /\ r.entrada = Some(At(0, 8)) /\ r.saida = Some(At(0, 13))
          /\ r.workedHours = Hours(5) /\ r.status = "Completo")

\* the slot of a kind: the earliest timestamp among the events of that kind
EarliestOf(events, type) ==
    LET stamps == {e.timestamp : e \in {x \in events : x.type = type}}
    IN  IF stamps = {} THEN None
        ELSE Some(CHOOSE t \in stamps : \A other \in stamps : t <= other)

SlotsAreEarliest(r, events) ==
    /\ r.entrada = EarliestOf(events, ENTRADA)
    /\ r.inicioIntervalo = EarliestOf(events, INICIO_INTERVALO)
    /\ r.fimIntervalo = EarliestOf(events, FIM_INTERVALO)
    /\ r.saida = EarliestOf(events, SAIDA)

\* every event of the group is listed once in originalEntries
ListsEvery(r, events) ==
    /\ Elements(r.originalEntries) = events
    /\ Len(r.originalEntries) = Cardinality(events)

\* the events of a user's snapshot that fall on the date of a dashboard row
EventsOfDay(u, r) ==
    {e \in Elements(timeEntries) :
        e.userId = u /\ toLocaleDateString(e.timestamp) = r.date}

\* C5: each slot of a row holds the timestamp of the earliest event of its
\* kind in the group, also when the kind occurs more than once, and every
\* event of the group, duplicates included, is in originalEntries.
C5_EarliestWins ==
    mounted =>
        /\ \A n \in DOMAIN processedEntries :
              LET r == processedEntries[n]
                  events == {timeEntries[i] : i \in EventsOfRow(r)}
              IN  SlotsAreEarliest(r, events) /\ ListsEvery(r, events)
        /\ \A u \in Users : \A n \in DOMAIN processedDailyEntries[u] :
              LET r == processedDailyEntries[u][n]
              IN  SlotsAreEarliest(r, EventsOfDay(u, r)) /\ ListsEvery(r, EventsOfDay(u, r))

\* two Entrada events of one day, the later one first in the snapshot
C5_Witness ==
    /\ mounted
    /\ Len(timeEntries) >= 2
    /\ timeEntries[1].type = ENTRADA /\ timeEntries[2].type = ENTRADA
    /\ timeEntries[1].userId = timeEntries[2].userId
    /\ timeEntries[1].timestamp = At(0, 12) /\ timeEntries[2].timestamp = At(0, 8)
    /\ SomeReportRow(LAMBDA r : r.entrada = Some(At(0, 8)) /\ Len(r.originalEntries) >= 2)

\* the array arr listed in the order p
Permuted(arr, p) == Array([i \in 1..Len(arr) |-> arr[p[i]]])

\* C6: aggregating the same events listed in any other order gives the same
\* records (slots, workedHours, balance, status, observation and
\* originalEntries order), also when events have equal timestamps.
C6_Original ==
    mounted =>
        \A p \in Permutations(DOMAIN timeEntries) :
            Elements(processedEntriesOf(Permuted(timeEntries, p), workdayHours))
                = Elements(processedEntries)

\* the dates of a row and of an event, as days of the calendar
DayOfRow(r) == CHOOSE d \in -1..(MaxDays + 1) : toLocaleDateString(d * MsPerDay) = r.date
DayOfEvent(e) == LocalDay(e.timestamp)

\* the rows that list an event
RowsListing(rows, e) == {n \in DOMAIN rows : e \in Elements(rows[n].originalEntries)}

NoRepeats(arr) == Cardinality(Elements(arr)) = Len(arr)

\* C7: every event of the snapshot is in the originalEntries of exactly one
\* row and once in it; the events of a row all have the row's userId and
\* fall on the row's date; no two rows have the same (userId, date).  In the
\* employee dashboard of a user the same holds of that user's events by date.
C7_Partition ==
    mounted =>
        /\ \A e \in Elements(timeEntries) :
              Cardinality(RowsListing(processedEntries, e)) = 1
        /\ \A n \in DOMAIN processedEntries :
              LET r == processedEntries[n]
              IN  /\ NoRepeats(r.originalEntries)
                  /\ r.originalEntries # <<>>
                  /\ \A e \in Elements(r.originalEntries) :
                        /\ e \in Elements(timeEntries)
                        /\ e.userId = r.userId
                        /\ DayOfEvent(e) = DayOfRow(r)
                  /\ \A m \in DOMAIN processedEntries :
                        m # n => <<processedEntries[m].userId, DayOfRow(processedEntries[m])>>
                                     # <<r.userId, DayOfRow(r)>>
        /\ \A u \in Users :
              LET rows == processedDailyEntries[u]
              IN  /\ \A e \in Elements(timeEntries) :
                        Cardinality(RowsListing(rows, e)) = IF e.userId = u THEN 1 ELSE 0
                  /\ \A n \in DOMAIN rows :
                        /\ NoRepeats(rows[n].originalEntries)
                        /\ rows[n].originalEntries # <<>>
                        /\ \A e \in Elements(rows[n].originalEntries) :
                              /\ e \in Elements(timeEntries)
                              /\ DayOfEvent(e) = DayOfRow(rows[n])
                        /\ \A m \in DOMAIN rows :
                              m # n => DayOfRow(rows[m]) # DayOfRow(rows[n])

\* two users with events on the same day, one of them with two events that
\* day and an event on another day
C7_Witness ==
    /\ mounted
    /\ Len(processedEntries) = 3
    /\ \E a, b, c \in DOMAIN processedEntries :
          /\ processedEntries[a].userId = "u1" /\ processedEntries[b].userId = "u2"
          /\ processedEntries[a].date = processedEntries[b].date
          /\ Len(processedEntries[a].originalEntries) = 2
          /\ processedEntries[c].userId = "u1"
          /\ processedEntries[c].date # processedEntries[a].date
    /\ Len(processedDailyEntries["u1"]) = 2
    /\ Len(processedDailyEntries["u2"]) = 1

\* the notes of an observation: the pieces at the odd positions
NotesOf(observation) ==
    Array([k \in 1..((Len(observation) + 1) \div 2) |-> observation[2 * k - 1]])

\* The observation lists the notes of the noted events in ascending timestamp
\* order: the noted events of one timestamp t take the positions after those
\* of the earlier noted events, and the notes at these positions are the
\* notes of these events, each as many times as it occurs among them.
ObservationOfEvents(observation, events) ==
    LET noted == {e \in events : e.observation # ""}
        notes == NotesOf(observation)
        before(t) == Cardinality({e \in noted : e.timestamp < t})
        upTo(t) == Cardinality({e \in noted : e.timestamp <= t})
    IN  /\ Len(observation) = IF noted = {} THEN 0 ELSE 2 * Cardinality(noted) - 1
        /\ \A k \in DOMAIN observation : k % 2 = 0 <=> observation[k] = "; "
        /\ \A k \in DOMAIN observation : observation[k] # ""
        /\ \A t \in {e.timestamp : e \in noted} :
           \A note \in {e.observation : e \in noted} :
               Cardinality({k \in (before(t) + 1)..upTo(t) : notes[k] = note})
                   = Cardinality({e \in noted : e.timestamp = t /\ e.observation = note})

\* C8: the observation of a row is the notes of the events of its group that
\* have a non-empty note, in ascending timestamp order, joined by "; "; an
\* event with an empty note adds neither a piece nor a delimiter.
C8_Observation ==
    mounted =>
        /\ \A n \in DOMAIN processedEntries :
              ObservationOfEvents(processedEntries[n].observation,
                  {timeEntries[i] : i \in EventsOfRow(processedEntries[n])})
        /\ \A u \in Users : \A n \in DOMAIN processedDailyEntries[u] :
              ObservationOfEvents(processedDailyEntries[u][n].observation,
                  EventsOfDay(u, processedDailyEntries[u][n]))

\* the snapshot lists the note "a" of 12:00, an event without note and the
\* note "b" of 08:00, and the observation is "b; a"
C8_Witness ==
    /\ mounted
    /\ Len(timeEntries) = 3
    /\ timeEntries[1].observation = "a" /\ timeEntries[1].timestamp = At(0, 12)
    /\ timeEntries[2].observation = ""
    /\ timeEntries[3].observation = "b" /\ timeEntries[3].timestamp = At(0, 8)
    /\ Len(processedEntries) = 1
    /\ processedEntries[1].observation = <<"b", "; ", "a">>
    /\ processedDailyEntries["u1"][1].observation = <<"b", "; ", "a">>

\* the memos of both dashboards
Memos ==
    <<processedEntries, filteredEntries, entriesWithAccumulatedBalance,
      summaryStats, processedDailyEntries>>

\* C9: a render leaves the time-entries array of the report and of each
\* employee dashboard, with its events, and the filtered list as they were
\* given to the memos (same elements, same order); a render with unchanged
\* props gives the results of the render before it.
C9_InputsKept ==
    [][/\ timeEntries' = timeEntries
       /\ \A u \in Users : dashboardTimeEntries'[u] = EntriesOfUser(timeEntries, u)
       /\ filteredEntries' = filteredEntriesOf(processedEntries', filters')
       /\ (mounted /\ workdayHours' = workdayHours /\ filters' = filters)
              => Memos' = Memos]_vars

\* after a render: today's events are out of timestamp order in the
\* snapshot, which summaryStats and todayEntries sort, and the filtered list
\* is in descending date order, which the accumulator sorts ascending
C9_Witness ==
    /\ mounted
    /\ \E i, j \in DOMAIN timeEntries :
          /\ i < j
          /\ timeEntries[i].userId = timeEntries[j].userId
          /\ isSameDay(timeEntries[i].timestamp, now)
          /\ isSameDay(timeEntries[j].timestamp, now)
          /\ timeEntries[i].timestamp > timeEntries[j].timestamp
    /\ Len(filteredEntries) >= 2
    /\ DayOfRow(filteredEntries[1]) > DayOfRow(filteredEntries[2])
    /\ DayOfRow(entriesWithAccumulatedBalance[1]) > DayOfRow(entriesWithAccumulatedBalance[2])

\* the sum of the balances of the rows at the indices in S
SumOfBalances(rows, S) ==
    LET F[i \in 0..Len(rows)] ==
            IF i = 0 THEN 0
            ELSE F[i - 1] + (IF i \in S THEN rows[i].balance ELSE 0)
    IN  F[Len(rows)]

\* the rows of the filtered list of the user of x up to the date of x
UpTo(x) ==
    {n \in DOMAIN filteredEntries :
        /\ filteredEntries[n].userId = x.userId
        /\ DayOfRow(filteredEntries[n]) <= DayOfRow(x)}

\* x without its accumulatedBalance
RecordOf(x) == [field \in DOMAIN x \ {"accumulatedBalance"} |-> x[field]]

\* the balances +1, -0.5 and +2 hours
ExampleBalances == <<Hours(1), 0 - Hours(1) \div 2, Hours(2)>>

\* C10: the accumulator gives one record for each record of the filtered
\* list, and its accumulatedBalance is the sum of the balances of the records
\* of the same user in the filtered list up to and including its date, so
\* the first record of a user has its own balance and the records of other
\* users do not count; a user with the balances +1, -0.5 and +2 on three
\* days gets 1, 0.5 and 2.5.
C10_AccumulatedBalance ==
    /\ mounted =>
          /\ Len(entriesWithAccumulatedBalance) = Len(filteredEntries)
          /\ \A n \in DOMAIN filteredEntries :
                \E k \in DOMAIN entriesWithAccumulatedBalance :
                    RecordOf(entriesWithAccumulatedBalance[k]) = filteredEntries[n]
          /\ \A k \in DOMAIN entriesWithAccumulatedBalance :
                LET x == entriesWithAccumulatedBalance[k]
                IN  /\ x.accumulatedBalance = SumOfBalances(filteredEntries, UpTo(x))
                    /\ (\A n \in UpTo(x) : filteredEntries[n].date = x.date)
                           => x.accumulatedBalance = x.balance
    /\ LET rows == Array([d \in 1..3 |->
                       [userId |-> "u1", date |-> toLocaleDateString(At(d - 1, 8)),
                        balance |-> ExampleBalances[d]]])
           out == entriesWithAccumulatedBalanceOf(rows).value
       IN  Array([d \in 1..3 |-> out[4 - d].accumulatedBalance])
               = <<Hours(1), Hours(1) \div 2, Hours(2) + Hours(1) \div 2>>

\* u1 has the balances +1, -0.5 and +2 on days 0, 1 and 2 and the accumulated
\* balances 1, 0.5 and 2.5, with the records of u2 among them
C10_Witness ==
    /\ mounted
    /\ filters = DefaultFilters
    /\ \E a, b, c \in DOMAIN entriesWithAccumulatedBalance :
          LET x == entriesWithAccumulatedBalance[a]
              y == entriesWithAccumulatedBalance[b]
              z == entriesWithAccumulatedBalance[c]
          IN  /\ x.userId = "u1" /\ y.userId = "u1" /\ z.userId = "u1"
              /\ DayOfRow(x) = 0 /\ DayOfRow(y) = 1 /\ DayOfRow(z) = 2
              /\ <<x.balance, y.balance, z.balance>> = ExampleBalances
              /\ <<x.accumulatedBalance, y.accumulatedBalance, z.accumulatedBalance>>
                     = <<60, 30, 150>>
    /\ \E k \in DOMAIN entriesWithAccumulatedBalance :
          /\ entriesWithAccumulatedBalance[k].userId = "u2"
          /\ entriesWithAccumulatedBalance[k].balance # 0

\* C11: the accumulator's output lists the records of the filtered list it
\* received, one for each, in the order of that list, records of different
\* users on the same date included.
C11_Original ==
    mounted =>
        /\ Len(entriesWithAccumulatedBalance) = Len(filteredEntries)
        /\ \A k \in DOMAIN filteredEntries :
              RecordOf(entriesWithAccumulatedBalance[k]) = filteredEntries[k]

\* the events of user u on the calendar day of `now`
EventsToday(u) ==
    {i \in DOMAIN timeEntries :
        /\ timeEntries[i].userId = u
        /\ LocalDay(timeEntries[i].timestamp) = LocalDay(now)}

\* the most recent of them: the greatest timestamp and, among the events of
\* that instant, the one listed last in the snapshot
MostRecentToday(u) ==
    CHOOSE i \in EventsToday(u) :
        \A j \in EventsToday(u) :
            \/ timeEntries[j].timestamp < timeEntries[i].timestamp
            \/ timeEntries[j].timestamp = timeEntries[i].timestamp /\ j <= i

WorkingUsers ==
    {u \in Users : EventsToday(u) # {} /\ timeEntries[MostRecentToday(u)].type # SAIDA}

\* C12: currentlyWorking is the number of users whose most recent event of
\* the current day is not a Saida: a user whose last event today is an Inicio
\* Intervalo is counted, one whose last event today is a Saida is not, and
\* one without event today is not.
C12_CurrentlyWorking ==
    mounted => summaryStats.currentlyWorking = Cardinality(WorkingUsers)

\* u1's events of today are listed with the Inicio Intervalo of 12:00 before
\* the Entrada of 08:00, u2 has no event, and one user is counted
C12_Witness ==
    /\ mounted
    /\ Len(timeEntries) = 2
    /\ timeEntries[1].type = INICIO_INTERVALO /\ timeEntries[1].timestamp = At(0, 12)
    /\ timeEntries[2].type = ENTRADA /\ timeEntries[2].timestamp = At(0, 8)
    /\ timeEntries[1].userId = "u1" /\ timeEntries[2].userId = "u1"
    /\ EventsToday("u2") = {}
    /\ summaryStats.currentlyWorking = 1

\* the rows of processedEntries dated in the calendar month of `now`
RowsOfCurrentMonth ==
    {n \in DOMAIN processedEntries :
        /\ processedEntries[n].date[2] = getMonth(now) + 1
        /\ processedEntries[n].date[3] = getFullYear(now)}

\* the sum of max(0, workedHours - workdayHours) over the rows at the indices
\* in S
SumOfOvertime(rows, S) ==
    LET F[i \in 0..Len(rows)] ==
            IF i = 0 THEN 0
            ELSE F[i - 1] + (IF i \in S THEN Max0(rows[i].workedHours - workdayHours) ELSE 0)
    IN  F[Len(rows)]

\* C13: the overtime of the summary is the sum of
\* max(0, workedHours - workdayHours) over the records dated in the current
\* calendar month (shown with two decimals); records of other months add
\* nothing.
C13_Original ==
    mounted =>
        summaryStats.overtime
            = toFixed2(SumOfOvertime(processedEntries, RowsOfCurrentMonth))

\* C14: the lateness of the summary is the number of records dated in the
\* current calendar month that have an entrada at 09:00 or later; a record
\* without entrada is not counted.
C14_Original ==
    mounted =>
        summaryStats.lateness
            = Cardinality({n \in RowsOfCurrentMonth :
                  /\ processedEntries[n].entrada # None
                  /\ getHours(processedEntries[n].entrada[1]) >= 9})

\* the answer that came last was a position
PositionObtained == lastCallback # None /\ lastCallback[1].coords # None

\* the position of the last answer lies within the radius of the workplace
\* of its request
LastPositionInRange ==
    LET coords == lastCallback[1].coords[1]
        target == lastCallback[1].request.target
    IN  calculateDistance(coords.latitude, coords.longitude,
                          target.latitude, target.longitude)
            <= target.radius * MillimetresPerMetre

\* C15: after a position is obtained the location state is "allowed" when the
\* distance computed from the position to the workplace of the request is at
\* most the radius and "denied" otherwise; a position at the workplace's
\* latitude and longitude has distance 0 and is allowed under every radius
\* that is not negative.
C15_Geofence ==
    PositionObtained =>
        LET coords == lastCallback[1].coords[1]
            target == lastCallback[1].request.target
        IN  /\ locationState = IF LastPositionInRange THEN "allowed" ELSE "denied"
            /\ (coords.latitude = target.latitude /\ coords.longitude = target.longitude)
                   => /\ calculateDistance(coords.latitude, coords.longitude,
                                           target.latitude, target.longitude) = 0
                      /\ (target.radius >= 0 => locationState = "allowed")

\* a position at the workplace under the radius 0
C15_Witness ==
    /\ PositionObtained
    /\ lastCallback[1].request.target.radius = 0
    /\ lastCallback[1].coords[1].latitude = lastCallback[1].request.target.latitude
    /\ locationState = "allowed"

ActionTypes == {ENTRADA, INICIO_INTERVALO, FIM_INTERVALO, SAIDA}

\* C16: a clock event is registered only in the location state "allowed"; in
\* the states "checking", "denied" and "error" every action button is
\* disabled; and the state becomes "allowed" only by the answer of a position
\* within the radius.
C16_RegisterOnlyAllowed ==
    [][/\ db'.time_entries # db.time_entries => locationState = "allowed"
       /\ locationState # "allowed" =>
              /\ locationState \in {"checking", "denied", "error"}
              /\ \A type \in ActionTypes :
                    buttonDisabled(type,
                        lastActionOf(EntriesOfUser(timeEntries, Employee), now),
                        locationState)
       /\ (locationState # "allowed" /\ locationState' = "allowed") =>
              /\ lastCallback' # lastCallback
              /\ Cardinality(positionRequests') = Cardinality(positionRequests) - 1
              /\ PositionObtained' /\ LastPositionInRange']_vars

\* an Entrada was registered and a later answer has put the employee out of
\* range: the Saida that the last action allows is disabled
C16_Witness ==
    /\ mounted
    /\ Len(EntriesOfUser(timeEntries, Employee)) = 1
    /\ locationState = "denied"
    /\ actionEnabled(SAIDA, lastActionOf(EntriesOfUser(timeEntries, Employee), now))
    /\ buttonDisabled(SAIDA, lastActionOf(EntriesOfUser(timeEntries, Employee), now),
                      locationState)

\* C17: a mounted employee dashboard issues exactly one position request,
\* whatever snapshots arrive after the mount.
C17_Original ==
    (mounted /\ geolocationSupported) => requestsIssued = 1

\* C24 as stated: once every outstanding position callback has fired, the
\* last of them having reported a position, the location state is the
\* classification of that position against the latest workplace config.
C24_Original ==
    (positionRequests = {} /\ PositionObtained) =>
        locationState = positionResultOf(lastCallback[1].coords[1], geofence).locationState

\* ------------------------------------------------------------------ backup
\* a step of handleImportData: it returned a new result or changed a
\* collection of records
ImportStep ==
    /\ lastImport' # None
    /\ backupFile' = backupFile
    /\ \/ lastImport' # lastImport
       \/ db'.users # db.users
       \/ db'.time_entries # db.time_entries

\* the text parses to an object with array-valued users and time_entries
ParsesToBackup(text) ==
    /\ text.json
    /\ text.value.kind = "object"
    /\ \A field \in {"users", "time_entries"} :
           /\ field \in DOMAIN text.value.fields
           /\ text.value.fields[field].kind = "array"

ThrowsOnParse(text) == ~text.json \/ text.value.kind = "null"

RecordsOf(text, field) == text.value.fields[field].items

\* record i is the last of the records with its id
LastWithId(records, i) ==
    \A j \in DOMAIN records :
        (j > i /\ "id" \in DOMAIN records[j]) => records[j].id # records[i].id

Written(field, record) ==
    /\ "id" \in DOMAIN record
    /\ field = "time_entries" => "timestamp" \in DOMAIN record

\* the stored document is the record without its id, the instant of a time
\* entry being the one its ISO string names
StoredAs(field, document, record) ==
    /\ DOMAIN document = DOMAIN record \ {"id"}
    /\ \A name \in DOMAIN document :
           IF field = "time_entries" /\ name = "timestamp"
           THEN toISOString(TimestampToDate(document[name])) = record[name]
           ELSE document[name] = record[name]

C20_RoundTrip ==
    [][(ImportStep /\ backupFile = Some(lastImport'[1].fileContent)
                   /\ lastImport'[1].fileContent = exportFileOf(db, now)
                   /\ lastImport'[1].commits)
        => /\ lastImport'[1].success
           /\ db'.time_entries = db.time_entries
           /\ db'.users = db.users
           /\ timeEntries' = entriesDataOf(db.time_entries)]_vars

\* the exported file of a store that holds an instant with milliseconds was
\* imported into it
C20_Witness ==
    /\ lastImport # None
    /\ lastImport[1].success
    /\ backupFile = Some(lastImport[1].fileContent)
    /\ lastImport[1].fileContent = exportFileOf(db, now)
    /\ \E id \in DOMAIN db.time_entries :
           db.time_entries[id].timestamp.nanoseconds # 0
    /\ db.audit_logs = <<"EXPORT_DATA_SUCCESS", "IMPORT_DATA_SUCCESS">>

\* the ids that the records of an array of the file carry
IdsIn(text, field) ==
    LET records == RecordsOf(text, field)
    IN  {records[i].id : i \in {j \in DOMAIN records : "id" \in DOMAIN records[j]}}

\* the documents of users and time_entries that the file does not name are
\* after the step what they were before it
UnnamedKept ==
    \A field \in {"users", "time_entries"} :
        \A id \in DOMAIN db[field] \ IdsIn(lastImport'[1].fileContent, field) :
            /\ id \in DOMAIN db'[field]
            /\ db'[field][id] = db[field][id]

\* C26 as stated: after a successful import every stored user and time-entry
\* document whose id does not occur in the file is unchanged, and after a
\* failed import the whole store is unchanged.
C26_Original ==
    [][ImportStep =>
          IF lastImport'[1].success THEN UnnamedKept ELSE db' = db]_vars

\* C26: after a successful import every stored user and time-entry document
\* whose id does not occur in the file is unchanged; after a failed import
\* the users and time_entries collections are unchanged, and the audit log
\* is unchanged or has one more entry, IMPORT_DATA_FAIL.
C26_ImportFrame ==
    [][ImportStep =>
          IF lastImport'[1].success
          THEN UnnamedKept
          ELSE /\ db'.users = db.users
               /\ db'.time_entries = db.time_entries
               /\ db'.audit_logs \in {db.audit_logs,
                                      Append(db.audit_logs, "IMPORT_DATA_FAIL")}]_vars

\* after a failed import, an import that names the user u3 alone succeeded
\* and the stored users are as they were
C26_Witness ==
    /\ lastImport # None
    /\ lastImport[1].success
    /\ IdsIn(lastImport[1].fileContent, "users") = {"u3"}
    /\ "u3" \in DOMAIN db.users
    /\ \A u \in DOMAIN StoredUsers : u \in DOMAIN db.users /\ db.users[u] = StoredUsers[u]
    /\ db.audit_logs = <<"IMPORT_DATA_FAIL", "IMPORT_DATA_SUCCESS">>

\* --------------------------------------------------------------- dashboards
\* the step removes a document of time_entries
RemovesEvent == DOMAIN db.time_entries \ DOMAIN db'.time_entries # {}

\* C21: a stored event is removed only by a step taken in the administrator
\* dashboard (the signed-in user is an administrator and the edit-day modal
\* is open); no step of the employee dashboard removes a document of
\* time_entries.
C21_DeleteOnlyAdmin ==
    [][/\ RemovesEvent =>
              /\ currentUser # None
              /\ currentUser[1].role = ADMIN
              /\ editDayModal # None
       /\ (currentUser # None /\ currentUser[1].role # ADMIN) =>
              DOMAIN db.time_entries \subseteq DOMAIN db'.time_entries]_vars

\* the administrator has deleted the only stored event, and the employee's
\* events are all still stored after a register and a saved observation
C21_Witness ==
    /\ Len(db.audit_logs) > 0
    /\ db.audit_logs[Len(db.audit_logs)] = "DELETE_TIME_ENTRY"
    /\ currentUser[1].role = ADMIN
    /\ DOMAIN db.time_entries = {}

\* the kinds permitted after the kind of the preceding event of the day
PermittedAfter(last) ==
    CASE last = None -> {ENTRADA}
      [] last = Some(ENTRADA) -> {INICIO_INTERVALO, SAIDA}
      [] last = Some(INICIO_INTERVALO) -> {FIM_INTERVALO}
      [] last = Some(FIM_INTERVALO) -> {SAIDA}
      [] last = Some(SAIDA) -> {ENTRADA}

\* the ids of the events user u stored on day d, in the order of storing
StoredOn(u, d) ==
    SelectSeq(DocsOfTimeEntries(db.time_entries),
        LAMBDA id : /\ db.time_entries[id].userId = u
                    /\ LocalDay(TimestampToDate(db.time_entries[id].timestamp)) = d)

\* C23 as stated: the events the employee stores through the dashboard on
\* one day follow the cycle: each kind is one permitted after the kind of the
\* employee's preceding stored event of that day.
C23_Original ==
    (currentUser # None /\ currentUser[1].role = EMPLOYEE) =>
        LET ids == StoredOn(currentUser[1].id, LocalDay(now))
        IN  \A k \in DOMAIN ids :
                db.time_entries[ids[k]].type \in
                    PermittedAfter(IF k = 1 THEN None
                                   ELSE Some(db.time_entries[ids[k - 1]].type))

\* the step is the save of the employee's observation modal
ObservationSaved == observationModal # None /\ observationModal' = None /\ db' # db

\* C25 as stated: the save of the employee's observation modal leaves the
\* timestamp, kind and userId of every stored event as they were immediately
\* before the save.
C25_Original ==
    [][ObservationSaved =>
          /\ DOMAIN db'.time_entries = DOMAIN db.time_entries
          /\ \A id \in DOMAIN db.time_entries :
                 /\ db'.time_entries[id].timestamp = db.time_entries[id].timestamp
                 /\ db'.time_entries[id].type = db.time_entries[id].type
                 /\ db'.time_entries[id].userId = db.time_entries[id].userId]_vars

\* the group of the open edit-day modal has an event in the snapshot
GroupHasEvent(modal, entries) ==
    \E i \in DOMAIN entries :
        /\ entries[i].userId = modal.userId
        /\ toLocaleDateString(entries[i].timestamp) = modal.date

\* the entries of the modal that carry an unsaved edit
UnsavedEdits(modal) ==
    {e \in Elements(modal.entries) : e \notin Elements(modal.originalEntries)}

\* C29 as stated: when a time-entries snapshot arrives while the edit-day
\* modal is open, the modal stays open with every unsaved edit of a still
\* stored event if the group still has an event, and closes only if it has
\* none.
C29_Original ==
    [][(editDayModal # None /\ timeEntries' # timeEntries) =>
          IF GroupHasEvent(editDayModal[1], timeEntries')
          THEN /\ editDayModal' # None
               /\ \A e \in UnsavedEdits(editDayModal[1]) :
                      (\E i \in DOMAIN timeEntries' : timeEntries'[i].id = e.id)
                      => e \in Elements(editDayModal'[1].entries)
          ELSE editDayModal' = None]_vars

\* the step is a call of handleAdminSetUserPassword
PasswordSetCalled ==
    /\ handleAdminSetUserPassword
    /\ lastResult' # None

\* C22: every call of handleAdminSetUserPassword returns a failure, with the
\* not-administrator message for a caller who is no administrator and the
\* unavailable message for an administrator, and leaves every account's
\* credential as it was.
C22_NeverSucceeds ==
    [][PasswordSetCalled =>
          /\ lastResult'[1].success = FALSE
          /\ lastResult'[1].message =
                 IF currentUser # None /\ currentUser[1].role = ADMIN
                 THEN FuncionalidadeIndisponivel ELSE ApenasAdministradores
          /\ authAccounts' = authAccounts]_vars

C22_Witness ==
    /\ currentUser # None /\ currentUser[1].role = ADMIN
    /\ lastResult = Some([success |-> FALSE, message |-> FuncionalidadeIndisponivel])
    /\ Len(db.audit_logs) > 0
    /\ db.audit_logs[Len(db.audit_logs)] = "ADMIN_PASSWORD_SET_ATTEMPT"
    /\ authAccounts = StoredAccounts

\* ------------------------------------------------------------- the session
\* what autoFixUserInconsistency leaves when it returns: on success the
\* profile under the uid, no document under the old id and no time entry of
\* the old id; on failure the store as it was
FixPost(flow, succeeded) ==
    IF succeeded
    THEN /\ flow.uid \in DOMAIN db'.users
         /\ db'.users[flow.uid] = flow.doc.data
         /\ flow.doc.id \notin DOMAIN db'.users
         /\ \A id \in DOMAIN db'.time_entries :
                db'.time_entries[id].userId # flow.doc.id
    ELSE db' = db

\* C27 as stated: when autoFixUserInconsistency returns a profile, a user
\* document with the old profile data exists under the auth uid, the
\* document under the old id is gone and no time entry has the old id as
\* userId; when it returns null no document was changed.
C27_Original ==
    [][/\ (listenerFlow.pc = "fixCommit" /\ listenerFlow' = Idle)
           => FixPost(listenerFlow, currentUser' # None)
       /\ (loginFlow.pc = "fixCommit" /\ loginFlow' = Idle)
           => FixPost(loginFlow, lastResult'[1].success)]_vars

\* C28 as stated: once the listener and the login have settled, currentUser
\* is non-null only if the account is signed in, a profile document exists
\* under its uid and currentUser.id is that uid; and a login that ends
\* signed out has reported failure.
C28_Original ==
    (listenerFlow = Idle /\ loginFlow = Idle) =>
        /\ currentUser # None =>
               /\ authUser # None
               /\ currentUser[1].id = authUser[1]
               /\ authUser[1] \in DOMAIN db.users
        /\ (lastResult # None /\ lastResult[1].success) =>
               (authUser # None /\ currentUser # None)

\* C30 as stated: no two documents of the users collection have the same
\* name or the same e-mail compared case-insensitively.
C30_Original ==
    \A a \in DOMAIN db.users : \A b \in DOMAIN db.users \ {a} :
        /\ toLowerCase(db.users[a].name) # toLowerCase(db.users[b].name)
        /\ toLowerCase(db.users[a].email) # toLowerCase(db.users[b].email)

====
